---- MODULE Spec2Model ----
(***************************************************************************)
(* A model of rally/cli/commands/src.py (class TaskCommands): the         *)
(* commands report(), trends(), import_results() and detailed(), with the  *)
(* loader _load_task_results_file() they share.                            *)
(*                                                                         *)
(* Strings that the code inspects or builds (out_format, the SLA details,  *)
(* the junit message) are sequences of characters, so that startswith()    *)
(* and ",".join() are computed and not assumed.  Identifiers and names the *)
(* code only compares or passes on are TLA+ strings.                       *)
(*                                                                         *)
(* An argument is drawn where the code first reads it (\E in that action): *)
(* a loop takes the next element of its input list when it reaches it, and *)
(* out_format and out are drawn by the branch that tests them.             *)
(***************************************************************************)
EXTENDS Integers, Sequences, FiniteSets, TLC

VARIABLES
    cmd,               \* the command running: "none", "report", "trends", "import", "detailed"
    pc,                \* the command's position
    out_format,        \* report(): the out_format argument, once read
    out,               \* report(), trends(): TRUE when the out argument is given, once read
    ti,                \* TRUE when the loop has consumed an element of the tasks list
    task_file_or_uuid, \* the loop variable: the identifier being loaded
    file_entries,      \* the entries of the results file last opened
    supplied,          \* history: the scenario results as loaded, before merging
    results,           \* report(), trends(): the merged list
    processed_names,   \* report(): name -> occurrences after the first
    message,           \* report(): the junit message variable
    ji,                \* report(): number of results the junit loop has handled
    test_suite,        \* report(): the add_test() calls made, in order
    rendered,          \* the renderer invoked: "none", "plot", "trends", "junit"
    include_libs,      \* the include_libs argument given to plot.plot
    artifact,          \* where the artifact went: "none", "file", "stdout"
    imported,          \* import_results(): the results given to api.task.import_results
    stderr,            \* the error message printed, "" when none
    exc,               \* the exception that left the command
    ret,               \* the value returned: "pending", "None", "0", "1", "raise", "failed_criteria"
    task,              \* detailed(): what api.task.get_detailed returned
    iterations_data,   \* detailed(): the iterations_data argument
    ri,                \* detailed(): number of results of the task handled
    iterations_headers, \* detailed(): the columns of the per-iteration table
    iterations_actions, \* detailed(): the (atomic_name, action) pairs
    iterations,        \* detailed(): the rows of the per-iteration table
    output,            \* detailed(): the additive output tables
    task_errors,       \* detailed(): the formatted errors of the result
    ii,                \* detailed(): iterations the loop of line 365 has taken
    idx,               \* detailed(): the index variable of lines 365 and 391
    iteration_output,  \* detailed(): the output of the iteration in hand
    ai,                \* detailed(): additive outputs the loop of line 391 has taken
    printed,           \* detailed(): what was printed, block by block
    is_debug,          \* logging.is_debug(): the verbosity flag of the run
    before,            \* history: the inputs and the report of the invocation before
    failed_criteria,   \* sla_check(): the number of failed criteria counted
    sla_data,          \* sla_check(): data, the rows of the table
    tojson,            \* sla_check(): the tojson argument
    unread             \* report(), trends(): the identifiers of tasks the loop never reached

reportVars == <<cmd, pc, out_format, out, ti, task_file_or_uuid, file_entries,
                supplied, results,
                processed_names, message, ji, test_suite, rendered, include_libs,
                artifact, imported, stderr, exc, ret>>

detailedVars == <<task, iterations_data, ri, iterations_headers, iterations_actions,
                  iterations, output, task_errors, ii, idx, iteration_output, ai,
                  printed, is_debug>>

\* What detailed() leaves alone.
otherVars == <<out_format, out, ti, task_file_or_uuid, file_entries, supplied,
               results, processed_names, message, ji, test_suite, rendered,
               include_libs, artifact, imported, stderr, exc>>

slaVars == <<failed_criteria, sla_data, tojson>>

vars == <<reportVars, detailedVars, before, slaVars, unread>>

(***************************************************************************)
(* Bounds of the model.                                                    *)
(***************************************************************************)
MaxMerged == 3    \* size of the results one call merges, merge-centred inputs
MaxSuite == 4     \* size of the results one call merges, junit-centred inputs
MaxFile == 2      \* entries of one results file
MaxLoaded == 3    \* size of the results one call loads, file-centred inputs
MaxRows == 5      \* size of the task detailed() prints, row-centred inputs
MaxErrors == 5    \* size of the task detailed() prints, error-centred inputs
MaxTwice == 2     \* size of the results report() merges when it runs twice
MaxEmpty == 3     \* size of the task detailed() prints after a report()
MaxRaw == 4       \* size of the task results() prints
MaxUnread == 1    \* identifiers of the tasks list after the one that ends the command
MaxCheck == 5     \* size of the task sla_check() checks

(***************************************************************************)
(* Strings as sequences of characters.                                     *)
(***************************************************************************)
HTML == <<"h", "t", "m", "l">>
HTML_STATIC == <<"h", "t", "m", "l", "_", "s", "t", "a", "t", "i", "c">>
JUNIT == <<"j", "u", "n", "i", "t">>
TABLE == <<"t", "a", "b", "l", "e">>
HTML5 == <<"h", "t", "m", "l", "5">>
XML == <<"x", "m", "l">>

\* The formats the specification enumerates.
EnumeratedFormats == {TABLE, HTML, HTML_STATIC, JUNIT}

\* The out_format values a call is given.
OutFormats == EnumeratedFormats \cup {HTML5, XML}

\* str.startswith
StartsWith(s, prefix) ==
    /\ Len(s) >= Len(prefix)
    /\ SubSeq(s, 1, Len(prefix)) = prefix

RECURSIVE Join(_, _)
\* sep.join(strs)
Join(strs, sep) ==
    IF strs = <<>> THEN <<>>
    ELSE IF Len(strs) = 1 THEN strs[1]
    ELSE strs[1] \o sep \o Join(Tail(strs), sep)

RECURSIVE Concat(_)
\* The strings of a list one after the other, nothing between them.
Concat(strs) ==
    IF strs = <<>> THEN <<>> ELSE strs[1] \o Concat(Tail(strs))

\* All sequences over S of length at most n.
SeqsUpTo(S, n) == UNION {[1..k -> S] : k \in 0..n}

(***************************************************************************)
(* Data.  A scenario result carries what report() reads: key.name,         *)
(* key.pos, sla and full_duration.  sla is a list of entries, or a value   *)
(* that is not a list (is_list = FALSE), which the junit branch tests      *)
(* with isinstance.  An element of a results file is an entry: a scenario  *)
(* result and the set of required fields it lacks.  A task is what an      *)
(* identifier of the tasks list stands for: whether it is an existing      *)
(* path, whether it is UUID-like, and the entries found there.             *)
(***************************************************************************)
Names == {"boot_server", "list_images"}
Durations == {1, 2}

ListSla(items) == [is_list |-> TRUE, items |-> items]
NotAListSla == [is_list |-> FALSE, items |-> <<>>]

TooSlow == <<"t", "o", "o", " ", "s", "l", "o", "w">>
Fine == <<"o", "k">>

SlaEntries ==
    {[criterion |-> "max_seconds", success |-> TRUE, detail |-> Fine],
     [criterion |-> "max_seconds", success |-> FALSE, detail |-> <<>>],
     [criterion |-> "max_seconds", success |-> FALSE, detail |-> TooSlow]}

\* The size of a scenario result, and of a list of them: one for the result
\* and one for each entry of its sla.  A call's inputs are bounded in size.
Weight(r) == 1 + Len(r.sla.items)

RECURSIVE TotalWeight(_)
TotalWeight(rs) == IF rs = <<>> THEN 0 ELSE Weight(Head(rs)) + TotalWeight(Tail(rs))

SlaValues == {ListSla(s) : s \in SeqsUpTo(SlaEntries, MaxSuite - 1)} \cup {NotAListSla}

\* Results that differ in name and pos only.
MergeResults ==
    {[name |-> n, pos |-> p, sla |-> ListSla(<<>>), full_duration |-> 1] :
        n \in Names, p \in 0..1}

\* Results that differ in name and full_duration, and results that differ in
\* sla.
JunitResults ==
    {[name |-> n, pos |-> 0, sla |-> ListSla(<<>>), full_duration |-> d] :
        n \in Names, d \in Durations}
    \cup
    {[name |-> "boot_server", pos |-> 0, sla |-> s, full_duration |-> 1] :
        s \in SlaValues}

WellFormed(r) == [missing |-> {}, result |-> r]
Malformed(r) == [missing |-> {"key"}, result |-> r]

RECURSIVE ResultLists(_, _)
\* The lists of results of R of total size at most w.
ResultLists(R, w) ==
    {<<>>} \cup
    UNION {{<<r>> \o l : l \in ResultLists(R, w - Weight(r))} :
              r \in {x \in R : Weight(x) <= w}}

\* The tasks of the database a call over the results R may name, of size at
\* most w: the identifier is UUID-like and no path.
UuidTasks(R, w) ==
    {[id |-> "uuid-1", exists |-> FALSE, uuid_like |-> TRUE,
      entries |-> [i \in 1..Len(rs) |-> WellFormed(rs[i])]] :
        rs \in ResultLists(R, w)}

\* The results files with entries over the results R, named by one of ids:
\* the identifier is an existing path ("uuid-2" is one that is UUID-like as
\* well), and any entry may be malformed.
FilesOver(R, ids) ==
    {[id |-> i, exists |-> TRUE, uuid_like |-> (i = "uuid-2"), entries |-> es] :
        i \in ids,
        es \in SeqsUpTo({WellFormed(r) : r \in R} \cup {Malformed(r) : r \in R},
                        MaxFile)}

\* Results that differ in name only.
LoadResults ==
    {[name |-> n, pos |-> 0, sla |-> ListSla(<<>>), full_duration |-> 1] :
        n \in Names}

\* One result.
OneResult ==
    {[name |-> "boot_server", pos |-> 0, sla |-> ListSla(<<>>), full_duration |-> 1]}

SmallFiles == FilesOver(OneResult, {"results.json"})
LoadFiles == FilesOver(LoadResults, {"results.json", "uuid-2"})

\* The identifiers that are neither.
InvalidTasks ==
    {[id |-> "nowhere", exists |-> FALSE, uuid_like |-> FALSE, entries |-> <<>>]}

NoException == [type |-> "none", source |-> ""]

\* The identifiers a tasks list may hold, and the lists of them that may
\* follow the identifier the loop ends at.
Identifiers == {"results.json", "uuid-2", "uuid-1", "nowhere"}
UnreadTasks == SeqsUpTo(Identifiers, MaxUnread)

\* os.path.exists(os.path.expanduser(id)) (664, 596) and
\* uuidutils.is_uuid_like(id) (667, 598) of those identifiers.
PathExists(id) == id \in {"results.json", "uuid-2"}
IsUuidLike(id) == id \in {"uuid-1", "uuid-2"}

\* Mutant: the identifier is tried as a UUID before it is tried as a path.
BranchUuidFirst(src) ==
    IF src.uuid_like THEN "uuid"
    ELSE IF src.exists THEN "file"
    ELSE "invalid"

\* The branch of the if of lines 664-682 (596-610 in trends()) the
\* identifier takes.
Branch(src) ==
    IF src.exists THEN "file"
    ELSE IF src.uuid_like THEN "uuid"
    ELSE "invalid"

(***************************************************************************)
(* _load_task_results_file (557-575).                                      *)
(***************************************************************************)
\* jsonschema.validate(result, api.task.TASK_RESULT_SCHEMA): an entry that
\* lacks a required field is rejected.
SchemaValid(entry) == entry.missing = {}

\* Mutant: the file is accepted in part, up to its first invalid entry.
LoadTaskResultsFileInPart(src) ==
    LET valid == {n \in 0..Len(src.entries) :
                     \A i \in 1..n : SchemaValid(src.entries[i])}
        last == CHOOSE n \in valid : \A m \in valid : m <= n
    IN  [raised |-> FALSE,
         exc |-> NoException,
         tasks_results |-> [i \in 1..last |-> src.entries[i].result]]

\* The entries are validated in order; the first invalid one raises
\* FailedToLoadResults(source=task_id) and nothing is returned.
LoadTaskResultsFile(src) ==
    IF \A i \in 1..Len(src.entries) : SchemaValid(src.entries[i])
    THEN [raised |-> FALSE,
          exc |-> NoException,
          tasks_results |-> [i \in 1..Len(src.entries) |-> src.entries[i].result]]
    ELSE [raised |-> TRUE,
          exc |-> [type |-> "FailedToLoadResults", source |-> src.id],
          tasks_results |-> <<>>]

\* api.task.get_detailed(task_id)["results"] mapped to the report's shape
\* (668-677, 599-606).
MappedResults(src) == [i \in 1..Len(src.entries) |-> src.entries[i].result]

(***************************************************************************)
(* report(): the merge (684-691).                                          *)
(***************************************************************************)
\* processed_names with name set to n.
SetName(pn, name, n) ==
    [k \in (DOMAIN pn) \cup {name} |-> IF k = name THEN n ELSE pn[k]]

\* Mutant: a later occurrence is counted but its pos is left as supplied.
MergeResultKeepsPos(acc, task_result) ==
    IF task_result.name \in DOMAIN acc.processed_names
    THEN LET n == acc.processed_names[task_result.name] + 1
         IN  [processed_names |-> SetName(acc.processed_names, task_result.name, n),
              results |-> Append(acc.results, task_result)]
    ELSE [processed_names |-> SetName(acc.processed_names, task_result.name, 0),
          results |-> Append(acc.results, task_result)]

\* One pass of the loop body for task_result; acc holds results and
\* processed_names.
MergeResult(acc, task_result) ==
    IF task_result.name \in DOMAIN acc.processed_names
    THEN LET n == acc.processed_names[task_result.name] + 1
         IN  [processed_names |-> SetName(acc.processed_names, task_result.name, n),
              results |-> Append(acc.results, [task_result EXCEPT !.pos = n])]
    ELSE [processed_names |-> SetName(acc.processed_names, task_result.name, 0),
          results |-> Append(acc.results, task_result)]

RECURSIVE MergeTaskResults(_, _)
\* for task_result in tasks_results: ...
MergeTaskResults(acc, tasks_results) ==
    IF tasks_results = <<>> THEN acc
    ELSE MergeTaskResults(MergeResult(acc, Head(tasks_results)), Tail(tasks_results))

(***************************************************************************)
(* report(): the junit branch (696-708).                                   *)
(***************************************************************************)
FAILURE == "failure"
SUCCESS == "success"

\* Mutant: the details of every entry, passed or failed.
FailedDetailsOfAll(items) == [i \in 1..Len(items) |-> items[i].detail]

\* [sla["detail"] for sla in result["sla"] if not sla["success"]]
FailedDetails(items) ==
    LET failed == SelectSeq(items, LAMBDA sla : ~sla.success)
    IN  [i \in 1..Len(failed) |-> failed[i].detail]

\* The message after lines 699-701: joined anew when sla is a list, and
\* otherwise the value the variable already had.
JunitMessage(result, previous) ==
    IF result.sla.is_list
    THEN Join(FailedDetails(result.sla.items), <<",">>)
    ELSE previous

\* if message: FAILURE else: SUCCESS
JunitOutcome(msg) == IF msg # <<>> THEN FAILURE ELSE SUCCESS

\* Mutant: only failed scenarios become test cases.
AddTestFailuresOnly(suite, result, outcome, msg) ==
    IF outcome = SUCCESS THEN suite
    ELSE Append(suite, [name |-> result.name, time |-> result.full_duration,
                        outcome |-> outcome, message |-> msg])

\* test_suite.add_test(result["key"]["name"], result["full_duration"],
\*                     outcome, message)
AddTest(suite, result, outcome, msg) ==
    Append(suite, [name |-> result.name, time |-> result.full_duration,
                   outcome |-> outcome, message |-> msg])

(***************************************************************************)
(* Data of detailed().  An atomic action is a node [name, duration,        *)
(* children]; an iteration carries duration, atomic_actions, output (when  *)
(* the key is present), scenario_output (when the key is present) and      *)
(* error (an empty list when the key is absent or the list is empty).  A   *)
(* scenario result carries its key and its iterations; a task carries its  *)
(* status and its results.                                                 *)
(***************************************************************************)
FINISHED == "finished"
ABORTED == "aborted"
CRASHED == "crashed"
VALIDATION_FAILED == "validation_failed"
RUNNING == "running"
Statuses == {FINISHED, ABORTED, CRASHED, VALIDATION_FAILED, RUNNING}

NoTask == [found |-> FALSE, status |-> "", results |-> <<>>]
EmptyOutput == [additive |-> <<>>, complete |-> <<>>]
NoOutput == [present |-> FALSE, additive |-> <<>>, complete |-> <<>>]
NoScenarioOutput == [present |-> FALSE, data |-> <<>>]

ActionNames == {"nova.boot", "nova.delete"}
ActionDurations == {1, 2}

RECURSIVE LeafLists(_, _)
\* The lists of at most w childless actions with different names outside used.
LeafLists(w, used) ==
    {<<>>} \cup
    (IF w < 1 THEN {}
     ELSE UNION {{<<[name |-> n, duration |-> d, children |-> <<>>]>> \o rest :
                     rest \in LeafLists(w - 1, used \cup {n})} :
                 n \in ActionNames \ used, d \in ActionDurations})

RECURSIVE NodeLists(_, _)
\* The lists of actions, siblings named differently, of at most w nodes in
\* all, with names outside used.
NodeLists(w, used) ==
    {<<>>} \cup
    (IF w < 1 THEN {}
     ELSE UNION {UNION {{<<[name |-> n, duration |-> d, children |-> c]>> \o rest :
                            rest \in NodeLists(w - 1 - Len(c), used \cup {n})} :
                        c \in LeafLists(w - 1, {})} :
                 n \in ActionNames \ used, d \in ActionDurations})

RECURSIVE NodeCount(_)
NodeCount(actions) ==
    IF actions = <<>> THEN 0
    ELSE 1 + Len(Head(actions).children) + NodeCount(Tail(actions))

\* The size of an iteration: one, and one for each atomic action, additive
\* output and legacy output item it carries.
IterWeight(itr) ==
    1 + NodeCount(itr.atomic_actions) + Len(itr.output.additive)
      + Cardinality(DOMAIN itr.scenario_output.data)

RECURSIVE IterLists(_, _)
\* The lists of iterations of U of total size at most w.
IterLists(U, w) ==
    {<<>>} \cup
    UNION {{<<itr>> \o l : l \in IterLists(U, w - IterWeight(itr))} :
              itr \in {x \in U : IterWeight(x) <= w}}

RECURSIVE ItersWeight(_)
ItersWeight(its) ==
    IF its = <<>> THEN 0 ELSE IterWeight(Head(its)) + ItersWeight(Tail(its))

RECURSIVE TaskResultLists(_, _, _)
\* The lists of scenario results, named in N and with iterations of U, of
\* total size at most w: a result counts one more than its iterations.
TaskResultLists(U, N, w) ==
    {<<>>} \cup
    (IF w < 1 THEN {}
     ELSE UNION {UNION {{<<[name |-> n, pos |-> 0, iterations |-> its]>> \o rest :
                            rest \in TaskResultLists(U, N, w - 1 - ItersWeight(its))} :
                        n \in N} :
                 its \in IterLists(U, w - 1)})

\* What get_detailed may return: nothing, or a task in some status.
DetailedTasks(U, N, w) ==
    {NoTask} \cup
    {[found |-> TRUE, status |-> st, results |-> rs] :
        st \in Statuses, rs \in TaskResultLists(U, N, w)}

\* An iteration with no atomic action, no output and no error.
PlainIteration(d) ==
    [duration |-> d, atomic_actions |-> <<>>, output |-> NoOutput,
     scenario_output |-> NoScenarioOutput, error |-> <<>>]

\* An additive output entry.
Additive(title, v) ==
    [data |-> <<<<"k", v>>>>, title |-> title, description |-> "",
     chart_plugin |-> "Lines"]

OutputTitles == {"Load", "Usage"}

\* Iterations that differ in their atomic actions.
AtomicIterations ==
    {[PlainIteration(1) EXCEPT !.atomic_actions = a] :
        a \in NodeLists(MaxRows - 2, {})}

\* Iterations that differ in duration and in the additive outputs they
\* carry.
OrderIterations ==
    {[PlainIteration(d) EXCEPT
          !.output = [present |-> TRUE, additive |-> adds, complete |-> <<>>]] :
        d \in ActionDurations,
        adds \in SeqsUpTo({Additive(t, 1) : t \in OutputTitles}, MaxRows - 2)}
    \cup {PlainIteration(d) : d \in ActionDurations}
    \cup {[PlainIteration(1) EXCEPT
              !.scenario_output = [present |-> TRUE, data |-> d]] :
            d \in {<<>>, "k" :> 1}}
    \cup {[PlainIteration(1) EXCEPT
              !.output = [present |-> TRUE, additive |-> adds, complete |-> <<>>],
              !.scenario_output = [present |-> TRUE, data |-> "k" :> 1]] :
            adds \in {<<>>, <<Additive("Load", 1)>>}}

\* Iterations that differ in their error.
Errors ==
    {<<>>, <<"KeyError">>, <<"KeyError", "no such flavor", "Traceback (most recent call last)">>}

ErrorIterations ==
    {[PlainIteration(1) EXCEPT !.error = e] : e \in Errors}
    \cup {[PlainIteration(1) EXCEPT
              !.output = [present |-> TRUE, additive |-> <<Additive("Load", 1)>>,
                          complete |-> <<>>]]}

\* A few iterations: a plain one, a failed one and one with an output.
FewIterations ==
    {PlainIteration(1),
     [PlainIteration(1) EXCEPT !.error = <<"KeyError">>],
     [PlainIteration(1) EXCEPT
         !.output = [present |-> TRUE, additive |-> <<Additive("Load", 1)>>,
                     complete |-> <<>>]]}

\* The tasks of size at most w over those iterations.
FewTasks(w) == DetailedTasks(FewIterations, {"boot_server"}, w)
RowsTasks(w) == DetailedTasks(AtomicIterations \cup OrderIterations, {"boot_server"}, w)
ErrorsTasks(w) == DetailedTasks(ErrorIterations, Names, w)

(***************************************************************************)
(* rally.task.processing.utils.AtomicMerger, as detailed() uses it         *)
(* (358-359, 370-372).                                                     *)
(***************************************************************************)
RECURSIVE Flatten(_, _)
\* The actions of a tree in document order, each under its display name:
\* the names on the path from the root.
Flatten(actions, prefix) ==
    IF actions = <<>> THEN <<>>
    ELSE LET a == Head(actions)
             path == Append(prefix, a.name)
         IN  <<[name |-> path, duration |-> a.duration]>>
             \o Flatten(a.children, path)
             \o Flatten(Tail(actions), prefix)

RECURSIVE AppendNew(_, _)
\* names followed by those elements of more it does not hold yet.
AppendNew(names, more) ==
    IF more = <<>> THEN names
    ELSE IF \E k \in 1..Len(names) : names[k] = Head(more)
         THEN AppendNew(names, Tail(more))
         ELSE AppendNew(Append(names, Head(more)), Tail(more))

RECURSIVE MergedNames(_)
\* get_merged_names(): the display names of all iterations of a result, in
\* the order first seen (the keys of result["info"]["atomic"]).
MergedNames(its) ==
    IF its = <<>> THEN <<>>
    ELSE LET flat == Flatten(its[Len(its)].atomic_actions, <<>>)
         IN  AppendNew(MergedNames(SubSeq(its, 1, Len(its) - 1)),
                       [k \in 1..Len(flat) |-> flat[k].name])

\* merge_atomic_actions(itr["atomic_actions"]): the durations the iteration
\* recorded, by display name.
MergeAtomicActions(actions) ==
    LET flat == Flatten(actions, <<>>)
    IN  [n \in {flat[k].name : k \in 1..Len(flat)} |->
            flat[CHOOSE k \in 1..Len(flat) : flat[k].name = n].duration]

(***************************************************************************)
(* detailed(): the body of the loop over the results (342-401).            *)
(***************************************************************************)
\* A column of the per-iteration table: "iteration", "duration" (i = 0), or
\* "%i. %s" % (i, atomic_name).
Column(i, name) == [i |-> i, name |-> name]

\* action = "%i. %s" % (i, atomic_name), with enumerate(atomic_names, 1).
IterationsActions(atomic_names) ==
    [k \in 1..Len(atomic_names) |->
        [name |-> atomic_names[k], action |-> Column(k, atomic_names[k])]]

\* Mutant: enumerate() with its default start numbers the columns from 0.
IterationsHeadersFromZero(atomic_names) ==
    <<Column(0, <<"iteration">>), Column(0, <<"duration">>)>>
    \o [k \in 1..Len(atomic_names) |-> Column(k - 1, atomic_names[k])]

\* iterations_headers after lines 353 and 360-362.
IterationsHeaders(atomic_names) ==
    <<Column(0, <<"iteration">>), Column(0, <<"duration">>)>>
    \o [k \in 1..Len(atomic_names) |-> Column(k, atomic_names[k])]

\* dict.get(key, default)
Get(d, key, default) == IF key \in DOMAIN d THEN d[key] ELSE default

\* Mutant: an action the iteration did not record shows the iteration's
\* duration.
IterationRowDefaultsToDuration(n, itr, actions) ==
    [iteration |-> n,
     duration |-> itr.duration,
     cells |-> [a \in {actions[k].action : k \in 1..Len(actions)} |->
                   LET k == CHOOSE j \in 1..Len(actions) :
                                /\ actions[j].action = a
                                /\ \A m \in 1..Len(actions) :
                                       actions[m].action = a => m <= j
                   IN  Get(MergeAtomicActions(itr.atomic_actions), actions[k].name,
                           itr.duration)]]

\* Mutant: enumerate() with its default start.
EnumerateFromZero(taken) == taken

\* The index enumerate(result["iterations"], 1) gives the element that
\* follows the taken ones (365).
Enumerate(taken) == taken + 1

\* The row of lines 368-373: the last assignment to a key stands.
IterationRow(n, itr, actions) ==
    [iteration |-> n,
     duration |-> itr.duration,
     cells |-> [a \in {actions[k].action : k \in 1..Len(actions)} |->
                   LET k == CHOOSE j \in 1..Len(actions) :
                                /\ actions[j].action = a
                                /\ \A m \in 1..Len(actions) :
                                       actions[m].action = a => m <= j
                   IN  Get(MergeAtomicActions(itr.atomic_actions), actions[k].name,
                           0)]]

RECURSIVE Items(_)
\* dict.items(): the (key, value) pairs of a mapping.
Items(d) ==
    IF DOMAIN d = {} THEN <<>>
    ELSE LET k == CHOOSE x \in DOMAIN d : TRUE
         IN  <<<<k, d[k]>>>> \o Items([x \in (DOMAIN d) \ {k} |-> d[x]])

\* Mutant: the legacy output is appended to a present output as well.
IterationOutputAddsLegacy(itr) ==
    LET legacy == IF itr.scenario_output.present
                     /\ DOMAIN itr.scenario_output.data # {}
                  THEN <<[data |-> Items(itr.scenario_output.data),
                          title |-> "Scenario output",
                          description |-> "",
                          chart_plugin |-> "StackedArea"]>>
                  ELSE <<>>
    IN  [additive |-> itr.output.additive \o legacy,
         complete |-> itr.output.complete]

\* iteration_output after lines 376-389.
IterationOutput(itr) ==
    IF itr.output.present
    THEN [additive |-> itr.output.additive, complete |-> itr.output.complete]
    ELSE [additive |->
              IF itr.scenario_output.present /\ DOMAIN itr.scenario_output.data # {}
              THEN <<[data |-> Items(itr.scenario_output.data),
                      title |-> "Scenario output",
                      description |-> "",
                      chart_plugin |-> "StackedArea"]>>
              ELSE <<>>,
          complete |-> <<>>]

\* plot.charts.OutputStatsTable(result["info"], title=...): a table and the
\* data its add_iteration was given.
OutputStatsTable(title) == [title |-> title, data |-> <<>>]

\* Lines 392-395, with the 0-based index i.
WithTable(tables, i, additive) ==
    IF Len(tables) <= i + 1
    THEN Append(tables, OutputStatsTable(additive.title))
    ELSE tables

\* Line 396: output[idx].add_iteration(additive["data"]).
AddIteration(tables, i, data) ==
    [tables EXCEPT ![i + 1].data = Append(@, data)]

\* _format_task_error (859-872).
FormatTaskError(itr) ==
    [error_type |-> IF Len(itr.error) >= 1 THEN itr.error[1] ELSE "Unknown type",
     error_message |-> IF Len(itr.error) >= 2 THEN itr.error[2]
                       ELSE "Rally hasn't caught anything yet",
     error_traceback |-> IF Len(itr.error) >= 3 THEN itr.error[3]
                         ELSE "No traceback available."]

\* Mutant: only the latest error is kept.
AppendErrorLatest(errors, itr) ==
    IF itr.error # <<>> THEN <<FormatTaskError(itr)>> ELSE errors

\* Lines 398-399.
AppendError(errors, itr) ==
    IF itr.error # <<>> THEN Append(errors, FormatTaskError(itr)) ELSE errors

\* OutputStatsTable.render()["data"]["rows"]: one row for each key the
\* table was given.
RenderedRows(table) ==
    UNION {{table.data[k][j][1] : j \in 1..Len(table.data[k])} :
              k \in 1..Len(table.data)}

\* Lines 426-442: the tables that have rows, each under its title.
PrintOutput(tables) ==
    [kind |-> "output", count |-> Len(tables),
     data |-> SelectSeq(tables, LAMBDA t : RenderedRows(t) # {})]

\* "%(error_type)s: %(error_message)s\n": the first element of an entry
\* (870-871).
ErrorSummary(err) == <<err.error_type, ": ", err.error_message, "\n">>

\* _print_task_errors (851-857): the header with the number of errors, and
\* both elements of every entry.
PrintTaskErrors(errors) ==
    [kind |-> "errors", count |-> Len(errors), data |-> errors,
     lines |-> Concat([k \in 1..Len(errors) |->
                          <<ErrorSummary(errors[k]), <<errors[k].error_traceback>>,
                            <<"-">>>>])]

\* Mutant: a table without rows is printed with a placeholder row.
PrintIterationsPlaceholder(headers, rows) ==
    [kind |-> "iterations", count |-> IF rows = <<>> THEN 1 ELSE Len(rows),
     data |-> [fields |-> headers,
               rows |-> IF rows = <<>>
                        THEN <<[iteration |-> 0, duration |-> 0, cells |-> <<>>]>>
                        ELSE rows]]

\* cliutils.print_list(iterations, fields=iterations_headers, ...) (420-423).
PrintIterations(headers, rows) ==
    [kind |-> "iterations", count |-> Len(rows),
     data |-> [fields |-> headers, rows |-> rows]]

\* The key of the result in hand (343-349).
PrintScenario(result) ==
    [kind |-> "scenario", count |-> 0, data |-> [name |-> result.name, pos |-> result.pos]]

\* No invocation came before.
NoPrevious ==
    [ran |-> FALSE, supplied |-> <<>>, out_format |-> <<>>, out |-> FALSE,
     results |-> <<>>, test_suite |-> <<>>, rendered |-> "none",
     include_libs |-> FALSE, artifact |-> "none"]

(***************************************************************************)
(* The initial state: no command running.                                  *)
(***************************************************************************)
Init ==
    /\ cmd = "none"
    /\ pc = "idle"
    /\ out_format = <<>>
    /\ out = FALSE
    /\ ti = FALSE
    /\ task_file_or_uuid = ""
    /\ file_entries = <<>>
    /\ supplied = <<>>
    /\ results = <<>>
    /\ processed_names = <<>>
    /\ message = <<>>
    /\ ji = 0
    /\ test_suite = <<>>
    /\ rendered = "none"
    /\ include_libs = FALSE
    /\ artifact = "none"
    /\ imported = <<>>
    /\ stderr = ""
    /\ exc = NoException
    /\ ret = "pending"
    /\ task = NoTask
    /\ iterations_data = FALSE
    /\ ri = 0
    /\ iterations_headers = <<>>
    /\ iterations_actions = <<>>
    /\ iterations = <<>>
    /\ output = <<>>
    /\ task_errors = <<>>
    /\ ii = 0
    /\ idx = 0
    /\ iteration_output = EmptyOutput
    /\ ai = 0
    /\ printed = <<>>
    /\ is_debug = FALSE
    /\ before = NoPrevious
    /\ failed_criteria = 0
    /\ sla_data = <<>>
    /\ tojson = FALSE
    /\ unread = <<>>

(***************************************************************************)
(* report() (647-721).                                                     *)
(***************************************************************************)
\* Mutant: the names counted by the call before are kept.
ProcessedNamesKept == processed_names

\* processed_names = {} (662).
ProcessedNamesAtCall == <<>>

\* The call: lines 660-662.
ReportCall ==
    /\ cmd = "none"
    /\ cmd' = "report"
    /\ pc' = "load"
    /\ results' = <<>>
    /\ message' = <<>>
    /\ processed_names' = ProcessedNamesAtCall
    /\ UNCHANGED detailedVars
    /\ UNCHANGED before
    /\ UNCHANGED unread
    /\ UNCHANGED slaVars
    /\ UNCHANGED <<file_entries, out_format, out, ti, task_file_or_uuid, supplied, ji, test_suite,
                   rendered, include_libs, artifact, imported, stderr, exc, ret>>

\* One pass of the loop of line 663 over an existing path whose file loads:
\* lines 664-666 and 684-691.
ReportLoadFile(Files, max) ==
    /\ cmd = "report" /\ pc = "load"
    /\ \E src \in Files :
        /\ Branch(src) = "file"
        /\ ~LoadTaskResultsFile(src).raised
        /\ TotalWeight(results)
               + TotalWeight(LoadTaskResultsFile(src).tasks_results) <= max
        /\ file_entries' = src.entries
        /\ LET tasks_results == LoadTaskResultsFile(src).tasks_results
               merged == MergeTaskResults(
                   [results |-> results, processed_names |-> processed_names],
                   tasks_results)
           IN  /\ task_file_or_uuid' = src.id
               /\ supplied' = supplied \o tasks_results
               /\ results' = merged.results
               /\ processed_names' = merged.processed_names
    /\ ti' = TRUE
    /\ UNCHANGED detailedVars
    /\ UNCHANGED before
    /\ UNCHANGED unread
    /\ UNCHANGED slaVars
    /\ UNCHANGED <<cmd, pc, out_format, out, message, ji, test_suite, rendered,
                   include_libs, artifact, imported, stderr, exc, ret>>

\* The same pass when the loader raises: the exception leaves report().
ReportLoadFileRaises(Files) ==
    /\ cmd = "report" /\ pc = "load"
    /\ \E src \in Files :
        /\ Branch(src) = "file"
        /\ LoadTaskResultsFile(src).raised
        /\ file_entries' = src.entries
        /\ task_file_or_uuid' = src.id
        /\ exc' = LoadTaskResultsFile(src).exc
    /\ ti' = TRUE
    /\ pc' = "done"
    /\ ret' = "raise"
    /\ UNCHANGED detailedVars
    /\ UNCHANGED before
    /\ unread' \in UnreadTasks
    /\ UNCHANGED slaVars
    /\ UNCHANGED <<cmd, out_format, out, supplied, results, processed_names, message,
                   ji, test_suite, rendered, include_libs, artifact, imported, stderr>>

\* The pass over a UUID-like identifier that is no path: lines 667-677 and
\* 684-691.
ReportLoadUuid(R, Files, max) ==
    /\ cmd = "report" /\ pc = "load"
    /\ \E src \in UuidTasks(R, max - TotalWeight(results)) \cup Files :
        /\ Branch(src) = "uuid"
        /\ TotalWeight(results) + TotalWeight(MappedResults(src)) <= max
        /\ LET tasks_results == MappedResults(src)
               merged == MergeTaskResults(
                   [results |-> results, processed_names |-> processed_names],
                   tasks_results)
           IN  /\ task_file_or_uuid' = src.id
               /\ supplied' = supplied \o tasks_results
               /\ results' = merged.results
               /\ processed_names' = merged.processed_names
    /\ ti' = TRUE
    /\ UNCHANGED detailedVars
    /\ UNCHANGED before
    /\ UNCHANGED unread
    /\ UNCHANGED slaVars
    /\ UNCHANGED <<file_entries, cmd, pc, out_format, out, message, ji, test_suite, rendered,
                   include_libs, artifact, imported, stderr, exc, ret>>

\* The pass over an identifier that is neither: lines 678-682.
ReportInvalidTask ==
    /\ cmd = "report" /\ pc = "load"
    /\ \E src \in InvalidTasks :
        /\ Branch(src) = "invalid"
        /\ task_file_or_uuid' = src.id
    /\ ti' = TRUE
    /\ stderr' = "Invalid UUID or file name passed"
    /\ pc' = "done"
    /\ ret' = "1"
    /\ UNCHANGED detailedVars
    /\ UNCHANGED before
    /\ unread' \in UnreadTasks
    /\ UNCHANGED slaVars
    /\ UNCHANGED <<file_entries, cmd, out_format, out, supplied, results, processed_names, message,
                   ji, test_suite, rendered, include_libs, artifact, imported, exc>>

\* The tasks list is exhausted (it holds at least one element, line 658).
ReportLoaded ==
    /\ cmd = "report" /\ pc = "load" /\ ti
    /\ pc' = "render"
    /\ UNCHANGED detailedVars
    /\ UNCHANGED before
    /\ UNCHANGED unread
    /\ UNCHANGED slaVars
    /\ UNCHANGED <<file_entries, cmd, out_format, out, ti, task_file_or_uuid, supplied, results,
                   processed_names, message, ji, test_suite, rendered, include_libs,
                   artifact, imported, stderr, exc, ret>>

\* Lines 693-695.
ReportPlot ==
    /\ cmd = "report" /\ pc = "render"
    /\ \E f \in OutFormats :
        /\ StartsWith(f, HTML)
        /\ out_format' = f
        /\ include_libs' = (f = HTML_STATIC)
    /\ rendered' = "plot"
    /\ pc' = "output"
    /\ UNCHANGED detailedVars
    /\ UNCHANGED before
    /\ UNCHANGED unread
    /\ UNCHANGED slaVars
    /\ UNCHANGED <<file_entries, cmd, out, ti, task_file_or_uuid, supplied, results,
                   processed_names, message, ji, test_suite, artifact, imported,
                   stderr, exc, ret>>

\* Lines 696-697.
ReportJunit ==
    /\ cmd = "report" /\ pc = "render"
    /\ \E f \in OutFormats :
        /\ ~StartsWith(f, HTML)
        /\ f = JUNIT
        /\ out_format' = f
    /\ test_suite' = <<>>
    /\ ji' = 0
    /\ pc' = "junit"
    /\ UNCHANGED detailedVars
    /\ UNCHANGED before
    /\ UNCHANGED unread
    /\ UNCHANGED slaVars
    /\ UNCHANGED <<file_entries, cmd, out, ti, task_file_or_uuid, supplied, results,
                   processed_names, message, rendered, include_libs, artifact,
                   imported, stderr, exc, ret>>

\* One pass of the loop of line 698: lines 699-707.
ReportJunitResult ==
    /\ cmd = "report" /\ pc = "junit" /\ ji < Len(results)
    /\ LET result == results[ji + 1]
           msg == JunitMessage(result, message)
       IN  /\ message' = msg
           /\ test_suite' = AddTest(test_suite, result, JunitOutcome(msg), msg)
    /\ ji' = ji + 1
    /\ UNCHANGED detailedVars
    /\ UNCHANGED before
    /\ UNCHANGED unread
    /\ UNCHANGED slaVars
    /\ UNCHANGED <<file_entries, cmd, pc, out_format, out, ti, task_file_or_uuid, supplied, results,
                   processed_names, rendered, include_libs, artifact, imported,
                   stderr, exc, ret>>

\* Line 708.
ReportJunitXml ==
    /\ cmd = "report" /\ pc = "junit" /\ ji = Len(results)
    /\ rendered' = "junit"
    /\ pc' = "output"
    /\ UNCHANGED detailedVars
    /\ UNCHANGED before
    /\ UNCHANGED unread
    /\ UNCHANGED slaVars
    /\ UNCHANGED <<file_entries, cmd, out_format, out, ti, task_file_or_uuid, supplied, results,
                   processed_names, message, ji, test_suite, include_libs, artifact,
                   imported, stderr, exc, ret>>

\* Lines 709-711.
ReportInvalidFormat ==
    /\ cmd = "report" /\ pc = "render"
    /\ \E f \in OutFormats :
        /\ ~StartsWith(f, HTML)
        /\ f # JUNIT
        /\ out_format' = f
    /\ stderr' = "Invalid output format"
    /\ pc' = "done"
    /\ ret' = "1"
    /\ UNCHANGED detailedVars
    /\ UNCHANGED before
    /\ UNCHANGED unread
    /\ UNCHANGED slaVars
    /\ UNCHANGED <<file_entries, cmd, out, ti, task_file_or_uuid, supplied, results,
                   processed_names, message, ji, test_suite, rendered, include_libs,
                   artifact, imported, exc>>

\* Lines 713-721: the artifact is written to the out file, or printed.
ReportOutput ==
    /\ cmd = "report" /\ pc = "output"
    /\ \E o \in BOOLEAN :
        /\ out' = o
        /\ artifact' = IF o THEN "file" ELSE "stdout"
    /\ pc' = "done"
    /\ ret' = "None"
    /\ UNCHANGED detailedVars
    /\ UNCHANGED before
    /\ UNCHANGED unread
    /\ UNCHANGED slaVars
    /\ UNCHANGED <<file_entries, cmd, out_format, ti, task_file_or_uuid, supplied, results,
                   processed_names, message, ji, test_suite, rendered, include_libs,
                   imported, stderr, exc>>

ReportNext(R, Files, max) ==
    \/ ReportCall
    \/ ReportLoadFile(Files, max)
    \/ ReportLoadFileRaises(Files)
    \/ ReportLoadUuid(R, Files, max)
    \/ ReportInvalidTask
    \/ ReportLoaded
    \/ ReportPlot
    \/ ReportJunit
    \/ ReportJunitResult
    \/ ReportJunitXml
    \/ ReportInvalidFormat
    \/ ReportOutput

\* report() has returned an artifact and the same command line is given
\* again: control is back where a command starts, the locals of the call
\* that returned are left as they are, and what it read and rendered is
\* remembered.
ReportAgain ==
    /\ cmd = "report" /\ pc = "done" /\ ret = "None"
    /\ ~before.ran
    /\ UNCHANGED unread
    /\ before' = [ran |-> TRUE, supplied |-> supplied, out_format |-> out_format,
                    out |-> out, results |-> results, test_suite |-> test_suite,
                    rendered |-> rendered, include_libs |-> include_libs,
                    artifact |-> artifact]
    /\ cmd' = "none"
    /\ pc' = "idle"
    /\ ret' = "pending"
    /\ supplied' = <<>>
    /\ ti' = FALSE
    /\ out_format' = <<>>
    /\ out' = FALSE
    /\ UNCHANGED detailedVars
    /\ UNCHANGED slaVars
    /\ UNCHANGED <<file_entries, task_file_or_uuid, results, processed_names, message,
                   ji, test_suite, rendered, include_libs, artifact, imported,
                   stderr, exc>>

\* The inputs of an invocation that follows another are those of the one
\* before: the results loaded so far begin its results, and the format and
\* the out option, once read, are its own.
SameInputs ==
    before.ran =>
        /\ Len(supplied) <= Len(before.supplied)
        /\ supplied = SubSeq(before.supplied, 1, Len(supplied))
        /\ pc \in {"render", "junit", "output", "done"} => supplied = before.supplied
        /\ out_format # <<>> => out_format = before.out_format
        /\ (pc = "done" /\ ret = "None") => out = before.out

\* report() twice over results that differ in name and pos.
SpecTwice ==
    Init /\ [][\/ ReportNext(MergeResults, SmallFiles, MaxTwice) /\ SameInputs'
               \/ ReportAgain]_vars

\* report() over results that differ in name and pos.
SpecMerge == Init /\ [][ReportNext(MergeResults, SmallFiles, MaxMerged)]_vars

\* report() over results that differ in name, sla and full_duration.
SpecJunit == Init /\ [][ReportNext(JunitResults, SmallFiles, MaxSuite)]_vars

(***************************************************************************)
(* trends() (585-625).                                                     *)
(***************************************************************************)
\* Lines 587-592: no task is given.
TrendsNoTasks ==
    /\ cmd = "none"
    /\ cmd' = "trends"
    /\ stderr' = "At least one task must be specified"
    /\ pc' = "done"
    /\ ret' = "1"
    /\ UNCHANGED detailedVars
    /\ UNCHANGED before
    /\ UNCHANGED unread
    /\ UNCHANGED slaVars
    /\ UNCHANGED <<file_entries, out_format, out, ti, task_file_or_uuid, supplied,
                   results, processed_names, message, ji, test_suite, rendered,
                   include_libs, artifact, imported, exc>>

\* Lines 587-594: the call with a tasks list that is not empty.
TrendsCall ==
    /\ cmd = "none"
    /\ cmd' = "trends"
    /\ pc' = "load"
    /\ results' = <<>>
    /\ UNCHANGED detailedVars
    /\ UNCHANGED before
    /\ UNCHANGED unread
    /\ UNCHANGED slaVars
    /\ UNCHANGED <<file_entries, out_format, out, ti, task_file_or_uuid, supplied,
                   processed_names, message, ji, test_suite, rendered, include_libs,
                   artifact, imported, stderr, exc, ret>>

\* One pass of the loop of line 595 over an existing path whose file loads:
\* lines 596-597 and 612.
TrendsLoadFile(Files, max) ==
    /\ cmd = "trends" /\ pc = "load"
    /\ \E src \in Files :
        /\ Branch(src) = "file"
        /\ ~LoadTaskResultsFile(src).raised
        /\ TotalWeight(results)
               + TotalWeight(LoadTaskResultsFile(src).tasks_results) <= max
        /\ file_entries' = src.entries
        /\ task_file_or_uuid' = src.id
        /\ supplied' = supplied \o LoadTaskResultsFile(src).tasks_results
        /\ results' = results \o LoadTaskResultsFile(src).tasks_results
    /\ ti' = TRUE
    /\ UNCHANGED detailedVars
    /\ UNCHANGED before
    /\ UNCHANGED unread
    /\ UNCHANGED slaVars
    /\ UNCHANGED <<cmd, pc, out_format, out, processed_names, message, ji, test_suite,
                   rendered, include_libs, artifact, imported, stderr, exc, ret>>

\* The same pass when the loader raises: the exception leaves trends().
TrendsLoadFileRaises(Files) ==
    /\ cmd = "trends" /\ pc = "load"
    /\ \E src \in Files :
        /\ Branch(src) = "file"
        /\ LoadTaskResultsFile(src).raised
        /\ file_entries' = src.entries
        /\ task_file_or_uuid' = src.id
        /\ exc' = LoadTaskResultsFile(src).exc
    /\ ti' = TRUE
    /\ pc' = "done"
    /\ ret' = "raise"
    /\ UNCHANGED detailedVars
    /\ UNCHANGED before
    /\ unread' \in UnreadTasks
    /\ UNCHANGED slaVars
    /\ UNCHANGED <<cmd, out_format, out, supplied, results, processed_names, message,
                   ji, test_suite, rendered, include_libs, artifact, imported, stderr>>

\* The pass over a UUID-like identifier that is no path: lines 598-606, 612.
TrendsLoadUuid(R, Files, max) ==
    /\ cmd = "trends" /\ pc = "load"
    /\ \E src \in UuidTasks(R, max - TotalWeight(results)) \cup Files :
        /\ Branch(src) = "uuid"
        /\ TotalWeight(results) + TotalWeight(MappedResults(src)) <= max
        /\ task_file_or_uuid' = src.id
        /\ supplied' = supplied \o MappedResults(src)
        /\ results' = results \o MappedResults(src)
    /\ ti' = TRUE
    /\ UNCHANGED detailedVars
    /\ UNCHANGED before
    /\ UNCHANGED unread
    /\ UNCHANGED slaVars
    /\ UNCHANGED <<file_entries, cmd, pc, out_format, out, processed_names, message, ji,
                   test_suite, rendered, include_libs, artifact, imported, stderr,
                   exc, ret>>

\* The pass over an identifier that is neither: lines 607-610.
TrendsInvalidTask ==
    /\ cmd = "trends" /\ pc = "load"
    /\ \E src \in InvalidTasks :
        /\ Branch(src) = "invalid"
        /\ task_file_or_uuid' = src.id
    /\ ti' = TRUE
    /\ stderr' = "Invalid UUID or file name passed"
    /\ pc' = "done"
    /\ ret' = "1"
    /\ UNCHANGED detailedVars
    /\ UNCHANGED before
    /\ unread' \in UnreadTasks
    /\ UNCHANGED slaVars
    /\ UNCHANGED <<file_entries, cmd, out_format, out, supplied, results,
                   processed_names, message, ji, test_suite, rendered, include_libs,
                   artifact, imported, exc>>

\* The tasks list is exhausted: line 614.
TrendsPlot ==
    /\ cmd = "trends" /\ pc = "load" /\ ti
    /\ rendered' = "trends"
    /\ pc' = "output"
    /\ UNCHANGED detailedVars
    /\ UNCHANGED before
    /\ UNCHANGED unread
    /\ UNCHANGED slaVars
    /\ UNCHANGED <<file_entries, cmd, out_format, out, ti, task_file_or_uuid, supplied,
                   results, processed_names, message, ji, test_suite, include_libs,
                   artifact, imported, stderr, exc, ret>>

\* Lines 616-625.
TrendsOutput ==
    /\ cmd = "trends" /\ pc = "output"
    /\ \E o \in BOOLEAN :
        /\ out' = o
        /\ artifact' = IF o THEN "file" ELSE "stdout"
    /\ pc' = "done"
    /\ ret' = "None"
    /\ UNCHANGED detailedVars
    /\ UNCHANGED before
    /\ UNCHANGED unread
    /\ UNCHANGED slaVars
    /\ UNCHANGED <<file_entries, cmd, out_format, ti, task_file_or_uuid, supplied,
                   results, processed_names, message, ji, test_suite, rendered,
                   include_libs, imported, stderr, exc>>

TrendsNext(R, Files, max) ==
    \/ TrendsNoTasks
    \/ TrendsCall
    \/ TrendsLoadFile(Files, max)
    \/ TrendsLoadFileRaises(Files)
    \/ TrendsLoadUuid(R, Files, max)
    \/ TrendsInvalidTask
    \/ TrendsPlot
    \/ TrendsOutput

(***************************************************************************)
(* import_results() (883-900).                                             *)
(***************************************************************************)
\* Lines 891-896: task_file is an existing path and the file loads.
ImportFile(Files) ==
    /\ cmd = "none"
    /\ \E src \in Files :
        /\ src.exists
        /\ ~LoadTaskResultsFile(src).raised
        /\ file_entries' = src.entries
        /\ task_file_or_uuid' = src.id
        /\ supplied' = LoadTaskResultsFile(src).tasks_results
        /\ imported' = LoadTaskResultsFile(src).tasks_results
    /\ cmd' = "import"
    /\ rendered' = "import"
    /\ artifact' = "stdout"
    /\ pc' = "done"
    /\ ret' = "None"
    /\ UNCHANGED detailedVars
    /\ UNCHANGED before
    /\ UNCHANGED unread
    /\ UNCHANGED slaVars
    /\ UNCHANGED <<out_format, out, ti, results, processed_names, message, ji,
                   test_suite, include_libs, stderr, exc>>

\* Lines 891-892 when the loader raises.
ImportFileRaises(Files) ==
    /\ cmd = "none"
    /\ \E src \in Files :
        /\ src.exists
        /\ LoadTaskResultsFile(src).raised
        /\ file_entries' = src.entries
        /\ task_file_or_uuid' = src.id
        /\ exc' = LoadTaskResultsFile(src).exc
    /\ cmd' = "import"
    /\ pc' = "done"
    /\ ret' = "raise"
    /\ UNCHANGED detailedVars
    /\ UNCHANGED before
    /\ UNCHANGED unread
    /\ UNCHANGED slaVars
    /\ UNCHANGED <<out_format, out, ti, supplied, results, processed_names, message,
                   ji, test_suite, rendered, include_libs, artifact, imported, stderr>>

\* Lines 897-900: task_file is no existing path.
ImportInvalidFile ==
    /\ cmd = "none"
    /\ \E src \in InvalidTasks :
        /\ ~src.exists
        /\ task_file_or_uuid' = src.id
    /\ cmd' = "import"
    /\ stderr' = "Invalid file name passed"
    /\ pc' = "done"
    /\ ret' = "None"
    /\ UNCHANGED detailedVars
    /\ UNCHANGED before
    /\ UNCHANGED unread
    /\ UNCHANGED slaVars
    /\ UNCHANGED <<file_entries, out_format, out, ti, supplied, results,
                   processed_names, message, ji, test_suite, rendered, include_libs,
                   artifact, imported, exc>>

ImportNext(Files) ==
    \/ ImportFile(Files)
    \/ ImportFileRaises(Files)
    \/ ImportInvalidFile

\* report(), trends() and import_results() over results files whose entries
\* may be malformed.
SpecLoad ==
    Init /\ [][\/ ReportNext(LoadResults, LoadFiles, MaxLoaded)
               \/ TrendsNext(LoadResults, LoadFiles, MaxLoaded)
               \/ ImportNext(LoadFiles)]_vars

(***************************************************************************)
(* detailed() (305-456).                                                   *)
(***************************************************************************)
\* Mutant: a task that is still running is taken to have results.
ResultsAvailableWhileRunning(status) == status \in {FINISHED, ABORTED, RUNNING}

\* The test of lines 334-335, negated: the status is FINISHED or ABORTED.
ResultsAvailable(status) == status \in {FINISHED, ABORTED}

\* Lines 311-315: get_detailed found no task.
DetailedNotFound(Tasks, Flags) ==
    /\ cmd = "none"
    /\ NoTask \in Tasks
    /\ \E data \in BOOLEAN : iterations_data' = data
    /\ \E debug \in Flags : is_debug' = debug
    /\ cmd' = "detailed"
    /\ task' = NoTask
    /\ printed' = <<[kind |-> "not found", count |-> 0, data |-> <<>>]>>
    /\ pc' = "done"
    /\ ret' = "1"
    /\ UNCHANGED otherVars
    /\ UNCHANGED before
    /\ UNCHANGED unread
    /\ UNCHANGED slaVars
    /\ UNCHANGED <<ri, iterations_headers, iterations_actions, iterations, output,
                   task_errors, ii, idx, iteration_output, ai>>

\* Lines 311-333: the task crashed or failed validation.
DetailedVerification(Tasks, Flags) ==
    /\ cmd = "none"
    /\ \E debug \in Flags : is_debug' = debug
    /\ \E t \in Tasks, data \in BOOLEAN :
          /\ t.found
          /\ t.status = CRASHED \/ t.status = VALIDATION_FAILED
          /\ task' = t
          /\ iterations_data' = data
    /\ cmd' = "detailed"
    /\ printed' = <<[kind |-> "verification", count |-> 0,
                     data |-> IF is_debug' THEN <<"trace">> ELSE <<"etype", "msg">>]>>
    /\ pc' = "done"
    /\ ret' = "0"
    /\ UNCHANGED otherVars
    /\ UNCHANGED before
    /\ UNCHANGED unread
    /\ UNCHANGED slaVars
    /\ UNCHANGED <<ri, iterations_headers, iterations_actions, iterations, output,
                   task_errors, ii, idx, iteration_output, ai>>

\* Lines 311-321 and 334-340: the task is in another status that has no
\* results yet.
DetailedNotFinished(Tasks, Flags) ==
    /\ cmd = "none"
    /\ \E debug \in Flags : is_debug' = debug
    /\ \E t \in Tasks, data \in BOOLEAN :
          /\ t.found
          /\ ~(t.status = CRASHED \/ t.status = VALIDATION_FAILED)
          /\ ~ResultsAvailable(t.status)
          /\ task' = t
          /\ iterations_data' = data
    /\ cmd' = "detailed"
    /\ printed' = <<[kind |-> "not finished", count |-> 0, data |-> <<>>]>>
    /\ pc' = "done"
    /\ ret' = "0"
    /\ UNCHANGED otherVars
    /\ UNCHANGED before
    /\ UNCHANGED unread
    /\ UNCHANGED slaVars
    /\ UNCHANGED <<ri, iterations_headers, iterations_actions, iterations, output,
                   task_errors, ii, idx, iteration_output, ai>>

\* Lines 311-321: the task is FINISHED or ABORTED and the loop of line 342
\* is entered.
DetailedCall(Tasks, Flags) ==
    /\ cmd = "none"
    /\ \E debug \in Flags : is_debug' = debug
    /\ \E t \in Tasks, data \in BOOLEAN :
          /\ t.found
          /\ ~(t.status = CRASHED \/ t.status = VALIDATION_FAILED)
          /\ ResultsAvailable(t.status)
          /\ task' = t
          /\ iterations_data' = data
    /\ cmd' = "detailed"
    /\ printed' = <<>>
    /\ ri' = 0
    /\ pc' = "results"
    /\ UNCHANGED otherVars
    /\ UNCHANGED before
    /\ UNCHANGED unread
    /\ UNCHANGED slaVars
    /\ UNCHANGED <<ret, iterations_headers, iterations_actions, iterations, output,
                   task_errors, ii, idx, iteration_output, ai>>

\* One pass of the loop of line 342, up to the loop of line 365: lines
\* 343-363.
DetailedResult ==
    /\ cmd = "detailed"
    /\ pc = "results"
    /\ ri < Len(task.results)
    /\ LET result == task.results[ri + 1]
           atomic_names == MergedNames(result.iterations)
       IN  /\ printed' = Append(printed, PrintScenario(result))
           /\ iterations' = <<>>
           /\ output' = <<>>
           /\ task_errors' = <<>>
           /\ iterations_headers' =
                  IF iterations_data THEN IterationsHeaders(atomic_names)
                  ELSE IterationsHeaders(<<>>)
           /\ iterations_actions' =
                  IF iterations_data THEN IterationsActions(atomic_names)
                  ELSE <<>>
    /\ ii' = 0
    /\ pc' = "iterations"
    /\ UNCHANGED otherVars
    /\ UNCHANGED before
    /\ UNCHANGED unread
    /\ UNCHANGED slaVars
    /\ UNCHANGED <<cmd, ret, task, is_debug, iterations_data, ri, idx, iteration_output, ai>>

\* One pass of the loop of line 365, up to the loop of line 391: lines
\* 365-389.
DetailedIteration ==
    /\ cmd = "detailed"
    /\ pc = "iterations"
    /\ ii < Len(task.results[ri + 1].iterations)
    /\ LET itr == task.results[ri + 1].iterations[ii + 1]
       IN  /\ idx' = Enumerate(ii)
           /\ iterations' =
                  IF iterations_data
                  THEN Append(iterations, IterationRow(idx', itr, iterations_actions))
                  ELSE iterations
           /\ iteration_output' = IterationOutput(itr)
    /\ ii' = ii + 1
    /\ ai' = 0
    /\ pc' = "additive"
    /\ UNCHANGED otherVars
    /\ UNCHANGED before
    /\ UNCHANGED unread
    /\ UNCHANGED slaVars
    /\ UNCHANGED <<cmd, ret, task, is_debug, iterations_data, ri, iterations_headers,
                   iterations_actions, output, task_errors, printed>>

\* One pass of the loop of line 391: lines 391-396.  An index outside the
\* list of tables raises IndexError.
DetailedAdditive ==
    /\ cmd = "detailed"
    /\ pc = "additive"
    /\ ai < Len(iteration_output.additive)
    /\ LET additive == iteration_output.additive[ai + 1]
           tables == WithTable(output, ai, additive)
       IN  /\ idx' = ai
           /\ IF idx' + 1 <= Len(tables)
              THEN /\ output' = AddIteration(tables, idx', additive.data)
                   /\ ai' = ai + 1
                   /\ UNCHANGED <<pc, ret>>
              ELSE /\ output' = tables
                   /\ pc' = "done"
                   /\ ret' = "raise"
                   /\ UNCHANGED ai
    /\ UNCHANGED otherVars
    /\ UNCHANGED before
    /\ UNCHANGED unread
    /\ UNCHANGED slaVars
    /\ UNCHANGED <<cmd, task, is_debug, iterations_data, ri, iterations_headers,
                   iterations_actions, iterations, task_errors, ii,
                   iteration_output, printed>>

\* The end of a pass of the loop of line 365: lines 398-399.
DetailedIterationEnd ==
    /\ cmd = "detailed"
    /\ pc = "additive"
    /\ ai = Len(iteration_output.additive)
    /\ task_errors' = AppendError(task_errors, task.results[ri + 1].iterations[ii])
    /\ pc' = "iterations"
    /\ UNCHANGED otherVars
    /\ UNCHANGED before
    /\ UNCHANGED unread
    /\ UNCHANGED slaVars
    /\ UNCHANGED <<cmd, ret, task, is_debug, iterations_data, ri, iterations_headers,
                   iterations_actions, iterations, output, ii, idx,
                   iteration_output, ai, printed>>

\* The end of a pass of the loop of line 342: lines 401-456.
DetailedPrint ==
    /\ cmd = "detailed"
    /\ pc = "iterations"
    /\ ii = Len(task.results[ri + 1].iterations)
    /\ printed' = printed
                    \o <<PrintTaskErrors(task_errors)>>
                    \o (IF iterations_data
                        THEN <<PrintIterations(iterations_headers, iterations)>>
                        ELSE <<>>)
                    \o (IF output # <<>> THEN <<PrintOutput(output)>> ELSE <<>>)
    /\ ri' = ri + 1
    /\ pc' = "results"
    /\ UNCHANGED otherVars
    /\ UNCHANGED before
    /\ UNCHANGED unread
    /\ UNCHANGED slaVars
    /\ UNCHANGED <<cmd, ret, task, is_debug, iterations_data, iterations_headers,
                   iterations_actions, iterations, output, task_errors, ii, idx,
                   iteration_output, ai>>

\* The loop of line 342 is exhausted: detailed() returns None.
DetailedReturn ==
    /\ cmd = "detailed"
    /\ pc = "results"
    /\ ri = Len(task.results)
    /\ pc' = "done"
    /\ ret' = "None"
    /\ UNCHANGED otherVars
    /\ UNCHANGED detailedVars
    /\ UNCHANGED before
    /\ UNCHANGED unread
    /\ UNCHANGED slaVars
    /\ UNCHANGED cmd

DetailedNext(Tasks, Flags) ==
    \/ DetailedNotFound(Tasks, Flags)
    \/ DetailedVerification(Tasks, Flags)
    \/ DetailedNotFinished(Tasks, Flags)
    \/ DetailedCall(Tasks, Flags)
    \/ DetailedResult
    \/ DetailedIteration
    \/ DetailedAdditive
    \/ DetailedIterationEnd
    \/ DetailedPrint
    \/ DetailedReturn

\* detailed() over tasks whose iterations differ in their atomic actions,
\* durations and additive outputs.
SpecRows == Init /\ [][DetailedNext(RowsTasks(MaxRows), {FALSE})]_vars

\* report(), and after it detailed() or the same report() again, over
\* inputs that may hold no result and no iteration.
SpecEmpty ==
    Init /\ [][\/ ReportNext(OneResult, SmallFiles, MaxTwice) /\ SameInputs'
               \/ ReportAgain
               \/ DetailedNext(FewTasks(MaxEmpty), {FALSE})]_vars

\* detailed() over tasks whose iterations differ in their errors, with the
\* verbosity flag set or not.
SpecErrors == Init /\ [][DetailedNext(ErrorsTasks(MaxErrors), BOOLEAN)]_vars

(***************************************************************************)
(* results() (461-492).                                                    *)
(***************************************************************************)
\* The iterations a raw result may hold: they differ in duration and atomic
\* actions.
RawIterations ==
    {PlainIteration(1), PlainIteration(2)}
    \cup {[PlainIteration(1) EXCEPT
              !.atomic_actions =
                  <<[name |-> "nova.boot", duration |-> 2, children |-> <<>>]>>]}

\* The tasks api.task.get may return, of size at most w: every result holds
\* key, data (raw, sla, load_duration, full_duration and, for the results
\* numbered in some set, hooks) and created_at.
ResultsTasks(w) ==
    UNION {{[found |-> TRUE, status |-> st,
             results |->
                 [i \in 1..Len(rs) |->
                     [name |-> rs[i].name, pos |-> rs[i].pos,
                      raw |-> rs[i].iterations,
                      sla |-> ListSla(<<>>),
                      hooks |-> [present |-> i \in hooked,
                                 items |-> IF i \in hooked THEN <<"hook">> ELSE <<>>],
                      load_duration |-> 1,
                      full_duration |-> 2,
                      created_at |-> i]]] :
               st \in Statuses, hooked \in SUBSET (1..Len(rs))} :
           rs \in TaskResultLists(RawIterations, Names, w)}

\* finished_statuses (469-470).
finished_statuses == {FINISHED, ABORTED}

\* tutils.WrapperForAtomicActions(itr["atomic_actions"]).items() as an
\* OrderedDict: the actions by name, in order, with their durations.
WrappedAtomicActions(actions) ==
    [k \in 1..Len(actions) |-> <<actions[k].name, actions[k].duration>>]

\* Lines 477-482: the atomic actions of every iteration are replaced, the
\* iterations stay where they are.
NormalizedRaw(raw) ==
    [k \in 1..Len(raw) |->
        [raw[k] EXCEPT !.atomic_actions = WrappedAtomicActions(@)]]

\* One object of the array of lines 484-490.
RawResult(x) ==
    [key |-> [name |-> x.name, pos |-> x.pos],
     result |-> NormalizedRaw(x.raw),
     sla |-> x.sla,
     hooks |-> IF x.hooks.present THEN x.hooks.items ELSE <<>>,
     load_duration |-> x.load_duration,
     full_duration |-> x.full_duration,
     created_at |-> x.created_at]

\* Mutant: the array lists the results from the last to the first.
RawResultsReversed(rs) ==
    [i \in 1..Len(rs) |-> RawResult(rs[Len(rs) + 1 - i])]

\* The array of lines 484-490: for x in task["results"].
RawResults(rs) == [i \in 1..Len(rs) |-> RawResult(rs[i])]

\* Lines 468-474: the task is not FINISHED or ABORTED.
ResultsNotFinished(Tasks) ==
    /\ cmd = "none"
    /\ \E t \in Tasks :
          /\ t.status \notin finished_statuses
          /\ task' = t
    /\ cmd' = "results"
    /\ printed' = <<[kind |-> "not finished", count |-> 0, data |-> <<>>]>>
    /\ pc' = "done"
    /\ ret' = "1"
    /\ UNCHANGED otherVars
    /\ UNCHANGED before
    /\ UNCHANGED unread
    /\ UNCHANGED slaVars
    /\ UNCHANGED <<ri, is_debug, iterations_data, iterations_headers,
                   iterations_actions, iterations, output, task_errors, ii, idx,
                   iteration_output, ai>>

\* Lines 468-492: the results are printed as JSON.
ResultsPrint(Tasks) ==
    /\ cmd = "none"
    /\ \E t \in Tasks :
          /\ ~(t.status \notin finished_statuses)
          /\ task' = t
          /\ printed' = <<[kind |-> "json", count |-> Len(t.results),
                           data |-> RawResults(t.results)]>>
    /\ cmd' = "results"
    /\ pc' = "done"
    /\ ret' = "None"
    /\ UNCHANGED otherVars
    /\ UNCHANGED before
    /\ UNCHANGED unread
    /\ UNCHANGED slaVars
    /\ UNCHANGED <<ri, is_debug, iterations_data, iterations_headers,
                   iterations_actions, iterations, output, task_errors, ii, idx,
                   iteration_output, ai>>

ResultsNext(Tasks) ==
    \/ ResultsNotFinished(Tasks)
    \/ ResultsPrint(Tasks)

\* results() over tasks in every status.
SpecRaw == Init /\ [][ResultsNext(ResultsTasks(MaxRaw))]_vars

(***************************************************************************)
(* sla_check() (764-790).                                                  *)
(***************************************************************************)
STATUS_PASS == "PASS"
STATUS_FAIL == "FAIL"

\* The criteria, in the order of their names as strings.
Criteria == <<"failure_rate", "max_seconds_per_iteration">>

\* The position of a criterion in that order.
CriterionRank(c) == CHOOSE k \in 1..Len(Criteria) : Criteria[k] = c

\* The SLA entries a result may carry.
CheckSlaEntries ==
    {[criterion |-> Criteria[k], success |-> ok, detail |-> <<>>] :
        k \in 1..Len(Criteria), ok \in BOOLEAN}

RECURSIVE CheckResultLists(_)
\* The lists of results of total size at most w: a result counts one more
\* than its SLA entries.
CheckResultLists(w) ==
    {<<>>} \cup
    (IF w < 1 THEN {}
     ELSE UNION {{<<[name |-> "boot_server", pos |-> 0, sla |-> sla]>> \o rest :
                     rest \in CheckResultLists(w - 1 - Len(sla))} :
                 sla \in SeqsUpTo(CheckSlaEntries, w - 1)})

\* What get_detailed returns to sla_check().
CheckTasks(w) ==
    {[found |-> TRUE, status |-> FINISHED, results |-> rs] :
        rs \in CheckResultLists(w)}

RECURSIVE SortedByCriterion(_)
\* sorted(result["data"]["sla"], key=lambda x: x["criterion"]): each entry is
\* put after the sorted entries before it that are not greater (a stable
\* sort).
SortedByCriterion(slas) ==
    IF slas = <<>> THEN <<>>
    ELSE LET front == SortedByCriterion(SubSeq(slas, 1, Len(slas) - 1))
             last == slas[Len(slas)]
             keep == {k \in 1..Len(front) :
                         CriterionRank(front[k].criterion)
                             <= CriterionRank(last.criterion)}
         IN  SubSeq(front, 1, Cardinality(keep)) \o <<last>>
             \o SubSeq(front, Cardinality(keep) + 1, Len(front))

\* Mutant: the entries are taken in the order stored.
NotSorted(slas) == slas

\* The order in which the loop of line 776 takes the entries.
InCheckOrder(slas) == SortedByCriterion(slas)

\* Lines 778-781: success is popped, status, benchmark and pos are set.
SlaRow(result, sla) ==
    [criterion |-> sla.criterion,
     detail |-> sla.detail,
     status |-> IF sla.success THEN STATUS_PASS ELSE STATUS_FAIL,
     benchmark |-> result.name,
     pos |-> result.pos]

RECURSIVE CheckSlas(_, _, _)
\* The loop of lines 776-783 over the entries left, from the count and rows
\* so far.
CheckSlas(acc, result, slas) ==
    IF slas = <<>> THEN acc
    ELSE CheckSlas([failed_criteria |->
                       acc.failed_criteria + (IF ~Head(slas).success THEN 1 ELSE 0),
                    data |-> Append(acc.data, SlaRow(result, Head(slas)))],
                   result, Tail(slas))

\* Lines 770-774: the results are fetched, the count and rows start empty.
SlaCheckCall(Tasks) ==
    /\ cmd = "none"
    /\ \E t \in Tasks, j \in BOOLEAN :
          /\ task' = t
          /\ tojson' = j
    /\ cmd' = "sla_check"
    /\ failed_criteria' = 0
    /\ sla_data' = <<>>
    /\ ri' = 0
    /\ pc' = "check"
    /\ UNCHANGED otherVars
    /\ UNCHANGED before
    /\ UNCHANGED unread
    /\ UNCHANGED <<ret, is_debug, iterations_data, iterations_headers,
                   iterations_actions, iterations, output, task_errors, ii, idx,
                   iteration_output, ai, printed>>

\* One pass of the loop of line 775: lines 775-783.
SlaCheckResult ==
    /\ cmd = "sla_check"
    /\ pc = "check"
    /\ ri < Len(task.results)
    /\ LET result == task.results[ri + 1]
           checked == CheckSlas([failed_criteria |-> failed_criteria, data |-> sla_data],
                                result, InCheckOrder(result.sla))
       IN  /\ failed_criteria' = checked.failed_criteria
           /\ sla_data' = checked.data
    /\ ri' = ri + 1
    /\ UNCHANGED otherVars
    /\ UNCHANGED before
    /\ UNCHANGED unread
    /\ UNCHANGED <<cmd, pc, ret, task, tojson, is_debug, iterations_data,
                   iterations_headers, iterations_actions, iterations, output,
                   task_errors, ii, idx, iteration_output, ai, printed>>

\* Lines 784-790: the rows are printed, as JSON or as a table, and the count
\* is returned.
SlaCheckReturn ==
    /\ cmd = "sla_check"
    /\ pc = "check"
    /\ ri = Len(task.results)
    /\ printed' = <<[kind |-> IF tojson THEN "json" ELSE "table",
                     count |-> Len(sla_data), data |-> sla_data]>>
    /\ pc' = "done"
    /\ ret' = "failed_criteria"
    /\ UNCHANGED otherVars
    /\ UNCHANGED before
    /\ UNCHANGED unread
    /\ UNCHANGED <<cmd, task, ri, failed_criteria, sla_data, tojson, is_debug,
                   iterations_data, iterations_headers, iterations_actions,
                   iterations, output, task_errors, ii, idx, iteration_output, ai>>

SlaCheckNext(Tasks) ==
    \/ SlaCheckCall(Tasks)
    \/ SlaCheckResult
    \/ SlaCheckReturn

\* sla_check() over tasks whose results differ in their SLA entries.
SpecCheck == Init /\ [][SlaCheckNext(CheckTasks(MaxCheck))]_vars

(***************************************************************************)
(* Properties of the merge of report().                                    *)
(***************************************************************************)
\* The number of elements before index i of rs that carry the name of rs[i].
EarlierSameName(rs, i) == Cardinality({j \in 1..(i - 1) : rs[j].name = rs[i].name})

\* C1: the merged list holds every supplied result, in the order supplied and
\* unchanged but for pos; the first occurrence of a name keeps the pos it was
\* supplied with and the n-th later occurrence has pos n.
MergeRetainsAndNumbers ==
    cmd = "report" =>
        /\ Len(results) = Len(supplied)
        /\ \A i \in 1..Len(results) :
            /\ results[i] = [supplied[i] EXCEPT !.pos = results[i].pos]
            /\ results[i].pos =
                   IF EarlierSameName(supplied, i) = 0 THEN supplied[i].pos
                   ELSE EarlierSameName(supplied, i)

\* C1 witness: three results named boot_server, all supplied with pos 0, are
\* merged with pos 0, 1 and 2.
MergeNumbersThree ==
    /\ cmd = "report" /\ pc = "render"
    /\ Len(results) = 3
    /\ \A i \in 1..3 : supplied[i].name = "boot_server" /\ supplied[i].pos = 0
    /\ results[1].pos = 0 /\ results[2].pos = 1 /\ results[3].pos = 2

\* C2: once the merge is over, no two merged results of one name share a pos.
MergedPosUniquePerName ==
    (cmd = "report" /\ pc \in {"render", "junit", "output"}) =>
        \A i, j \in 1..Len(results) :
            (i < j /\ results[i].name = results[j].name)
                => results[i].pos # results[j].pos

(***************************************************************************)
(* Properties of the junit branch of report().                             *)
(***************************************************************************)
RECURSIVE DetailsOfFailed(_)
\* The details of the failed entries of an sla list, in the list's order.
DetailsOfFailed(items) ==
    IF items = <<>> THEN <<>>
    ELSE IF Head(items).success THEN DetailsOfFailed(Tail(items))
    ELSE <<Head(items).detail>> \o DetailsOfFailed(Tail(items))

AnyFailed(items) == \E k \in 1..Len(items) : ~items[k].success

\* The test case of the i-th merged result exists and its sla is a list.
CaseOfListSla(i) ==
    /\ cmd = "report"
    /\ i <= Len(test_suite)
    /\ results[i].sla.is_list

\* C3: a test case is a FAILURE exactly when an entry of its result's sla
\* list has success = false, whatever the details are.
JunitFailureIffSlaFailed ==
    \A i \in 1..Len(results) :
        CaseOfListSla(i) =>
            (test_suite[i].outcome = FAILURE <=> AnyFailed(results[i].sla.items))

\* C4 as stated: the message is the details of the failed entries one after
\* the other.
JunitMessageIsConcatenation ==
    \A i \in 1..Len(results) :
        CaseOfListSla(i) =>
            test_suite[i].message = Concat(DetailsOfFailed(results[i].sla.items))

\* C4 amended: the message is the details of the failed entries, in sla
\* order, separated by commas.
JunitMessageIsCommaJoined ==
    \A i \in 1..Len(results) :
        CaseOfListSla(i) =>
            test_suite[i].message =
                Join(DetailsOfFailed(results[i].sla.items), <<",">>)

\* C4 witness: a result whose sla holds the failed criterion with detail
\* "too slow", a passed one and the failed one again is given the message
\* "too slow,too slow".
JunitMessageTooSlow ==
    /\ cmd = "report" /\ rendered = "junit"
    /\ Len(results) = 1
    /\ Len(results[1].sla.items) = 3
    /\ results[1].sla.items[2].success
    /\ results[1].sla.items[1].detail = TooSlow
    /\ test_suite[1].message = TooSlow \o <<",">> \o TooSlow

\* C5: the junit loop adds one test case per merged result, in merged order,
\* named by key.name and timed by full_duration; when the suite is rendered
\* every result has its test case.
JunitOneCasePerResult ==
    (cmd = "report" /\ (pc = "junit" \/ rendered = "junit")) =>
        /\ Len(test_suite) = ji
        /\ ji <= Len(results)
        /\ rendered = "junit" => ji = Len(results)
        /\ \A i \in 1..Len(test_suite) :
            /\ test_suite[i].name = results[i].name
            /\ test_suite[i].time = results[i].full_duration

\* C5 witness: a rendered suite of two cases with different names and
\* durations, the first a success.
JunitTwoCases ==
    /\ cmd = "report" /\ rendered = "junit"
    /\ Len(test_suite) = 2
    /\ test_suite[1].name # test_suite[2].name
    /\ test_suite[1].time # test_suite[2].time
    /\ test_suite[1].outcome = SUCCESS

(***************************************************************************)
(* Properties of the format dispatch of report().                          *)
(***************************************************************************)
\* C6: an out_format outside the enumerated formats gives the error result,
\* with no renderer invoked and no artifact written or printed.
UnknownFormatIsAnError ==
    (cmd = "report" /\ out_format # <<>> /\ out_format \notin EnumeratedFormats) =>
        /\ rendered = "none"
        /\ artifact = "none"
        /\ pc = "done" => ret = "1"

(***************************************************************************)
(* Properties of the loading of results files.                             *)
(***************************************************************************)
\* C9: a step that opens a results file with an entry that fails validation
\* ends the command with FailedToLoadResults naming the identifier passed
\* in; nothing of the file joins the results, and nothing is rendered,
\* written, printed or imported.
LoadRejectsWholeFile ==
    [][(\E k \in 1..Len(file_entries') : ~SchemaValid(file_entries'[k])) =>
          /\ exc' = [type |-> "FailedToLoadResults", source |-> task_file_or_uuid']
          /\ ret' = "raise"
          /\ pc' = "done"
          /\ results' = results
          /\ supplied' = supplied
          /\ rendered' = "none"
          /\ artifact' = "none"
          /\ imported' = <<>>]_vars

\* C9 witness: report() has merged a result of one file, and the next file,
\* whose second entry is malformed, is rejected by name.
LoadRejectsSecondFile ==
    /\ cmd = "report" /\ ret = "raise"
    /\ Len(results) = 1
    /\ Len(file_entries) = 2
    /\ SchemaValid(file_entries[1])
    /\ ~SchemaValid(file_entries[2])
    /\ exc = [type |-> "FailedToLoadResults", source |-> "uuid-2"]

(***************************************************************************)
(* Properties of detailed().                                               *)
(***************************************************************************)
\* The 1-based index of the result whose rows, tables and errors the local
\* variables hold; 0 before the first result.
HandledResult == IF pc \in {"iterations", "additive"} THEN ri + 1 ELSE ri

\* The iterations of that result.
HandledIterations == task.results[HandledResult].iterations

RECURSIVE RecordedAt(_, _)
\* The durations an action tree records under a display name: the walk
\* down the path of names.
RecordedAt(actions, path) ==
    LET here == {k \in 1..Len(actions) : actions[k].name = Head(path)}
    IN  IF Len(path) = 1
        THEN {actions[k].duration : k \in here}
        ELSE UNION {RecordedAt(actions[k].children, Tail(path)) : k \in here}

\* C7: with iterations_data set, every row built for an iteration holds, under
\* the column of every canonical atomic name, the duration the iteration
\* recorded for that name, and exactly 0 when it recorded none; detailed()
\* never raises.
AtomicRowsProjectRecorded ==
    cmd = "detailed" =>
        /\ ret # "raise"
        /\ (iterations_data /\ HandledResult >= 1) =>
               LET names == MergedNames(HandledIterations)
               IN  /\ Len(iterations) = ii
                   /\ \A k \in 1..Len(iterations) :
                          /\ DOMAIN iterations[k].cells =
                                 {Column(n, names[n]) : n \in 1..Len(names)}
                          /\ \A n \in 1..Len(names) :
                                 LET recorded ==
                                         RecordedAt(HandledIterations[k].atomic_actions,
                                                    names[n])
                                 IN  iterations[k].cells[Column(n, names[n])] =
                                         IF recorded = {} THEN 0
                                         ELSE CHOOSE d \in recorded : TRUE

\* C7 witness: a result is done whose first iteration recorded 2 for a nested
\* action the second iteration did not record, and the second row shows 0.
AtomicRowShowsZero ==
    /\ cmd = "detailed"
    /\ iterations_data
    /\ pc = "results"
    /\ ri = 1
    /\ Len(iterations) = 2
    /\ \E c \in DOMAIN iterations[2].cells :
          /\ Len(c.name) = 2
          /\ iterations[1].cells[c] = 2
          /\ iterations[2].cells[c] = 0

\* C8: with iterations_data set, the rows built for a result are one per
\* iteration taken, in the order of result["iterations"]: the i-th row
\* carries the number i and the duration of the i-th iteration, in every
\* state of the loop over additive outputs as well.
RowsFollowIterations ==
    (cmd = "detailed" /\ iterations_data /\ HandledResult >= 1 /\ ret # "raise") =>
        /\ Len(iterations) = ii
        /\ ii <= Len(HandledIterations)
        /\ \A k \in 1..Len(iterations) :
               /\ iterations[k].iteration = k
               /\ iterations[k].duration = HandledIterations[k].duration

\* C8 witness: two rows of different durations are built and the loop over
\* additive outputs has left the index variable at 0.
RowsAfterInnerLoop ==
    /\ cmd = "detailed"
    /\ iterations_data
    /\ pc = "iterations"
    /\ Len(iterations) = 2
    /\ idx = 0
    /\ Len(output) >= 1
    /\ iterations[1].duration # iterations[2].duration
    /\ iterations[2].iteration = 2

\* The formatted errors of the iterations that carry one, in order.
FailedOf(its) ==
    LET failed == SelectSeq(its, LAMBDA itr : itr.error # <<>>)
    IN  [k \in 1..Len(failed) |-> FormatTaskError(failed[k])]

\* The blocks of a kind among those printed.
Blocks(kind) == SelectSeq(printed, LAMBDA b : b.kind = kind)

\* C10: on a FINISHED or ABORTED task detailed() never raises; the errors
\* gathered for the result in hand are those of its iterations that carry
\* one, in order; the error blocks printed are those of the results, one
\* for each in order; and the command ends only after the last result.
ErrorsNeverAbort ==
    (cmd = "detailed" /\ task.found /\ task.status \in {FINISHED, ABORTED}) =>
        /\ ret # "raise"
        /\ HandledResult >= 1 =>
               task_errors =
                   FailedOf(SubSeq(HandledIterations, 1,
                                   IF pc = "additive" THEN ii - 1 ELSE ii))
        /\ Blocks("errors") =
               [r \in 1..ri |-> PrintTaskErrors(FailedOf(task.results[r].iterations))]
        /\ Blocks("scenario") =
               [r \in 1..HandledResult |-> PrintScenario(task.results[r])]
        /\ pc = "done" => (ret = "None" /\ ri = Len(task.results))

\* C10 witness: detailed() returned after two results, every iteration of the
\* first of which failed, and printed an error block for each.
ErrorsOfTwoResults ==
    /\ cmd = "detailed"
    /\ pc = "done"
    /\ ret = "None"
    /\ Len(task.results) = 2
    /\ Len(task.results[1].iterations) = 2
    /\ \A k \in 1..2 : task.results[1].iterations[k].error # <<>>
    /\ Len(Blocks("errors")) = 2
    /\ Blocks("errors")[1].count = 2
    /\ Blocks("errors")[2].count = 0

\* C11: every error block printed shows the type and message of each of its
\* entries, and with the verbosity flag unset no line of it is the traceback
\* of an entry.
ErrorBlockGatesTraceback ==
    cmd = "detailed" =>
        \A n \in 1..Len(Blocks("errors")) :
            LET b == Blocks("errors")[n]
            IN  /\ \A k \in 1..Len(b.data) :
                       \E j \in 1..Len(b.lines) : b.lines[j] = ErrorSummary(b.data[k])
                /\ ~is_debug =>
                       \A k \in 1..Len(b.data), j \in 1..Len(b.lines) :
                           b.lines[j] # <<b.data[k].error_traceback>>

\* C12: the output of the iteration in hand has the shape {additive,
\* complete}: it is the iteration's "output" when it has one, whatever its
\* legacy scenario_output; otherwise complete is empty and additive holds
\* exactly one entry, titled "Scenario output", drawn as "StackedArea" and
\* carrying the items of the legacy map, if and only if the iteration has a
\* scenario_output whose data is not empty.
OutputIsNormalized ==
    (cmd = "detailed" /\ pc = "additive") =>
        LET itr == HandledIterations[ii]
            legacy == itr.scenario_output.present
                      /\ DOMAIN itr.scenario_output.data # {}
        IN  /\ DOMAIN iteration_output = {"additive", "complete"}
            /\ itr.output.present =>
                   /\ iteration_output.additive = itr.output.additive
                   /\ iteration_output.complete = itr.output.complete
            /\ ~itr.output.present =>
                   /\ iteration_output.complete = <<>>
                   /\ Len(iteration_output.additive) = (IF legacy THEN 1 ELSE 0)
                   /\ legacy =>
                          LET entry == iteration_output.additive[1]
                          IN  /\ entry.title = "Scenario output"
                              /\ entry.chart_plugin = "StackedArea"
                              /\ Len(entry.data) =
                                     Cardinality(DOMAIN itr.scenario_output.data)
                              /\ {entry.data[k] : k \in 1..Len(entry.data)} =
                                     {<<key, itr.scenario_output.data[key]>> :
                                         key \in DOMAIN itr.scenario_output.data}

\* C12 witness: an iteration that has both an output and a legacy
\* scenario_output with data is in hand, and its output alone is used.
OutputHidesLegacy ==
    /\ cmd = "detailed"
    /\ pc = "additive"
    /\ HandledIterations[ii].output.present
    /\ HandledIterations[ii].scenario_output.present
    /\ DOMAIN HandledIterations[ii].scenario_output.data # {}
    /\ Len(iteration_output.additive) = 1
    /\ iteration_output.additive[1].title = "Load"

RECURSIVE PathsOf(_, _)
\* The display names an action tree holds: the paths from its roots.
PathsOf(actions, prefix) ==
    UNION {{Append(prefix, actions[k].name)}
           \cup PathsOf(actions[k].children, Append(prefix, actions[k].name)) :
              k \in 1..Len(actions)}

\* The display names the iterations of a result hold.
RecordedNames(its) ==
    UNION {PathsOf(its[k].atomic_actions, <<>>) : k \in 1..Len(its)}

\* C13: with iterations_data set, the columns of the per-iteration table
\* after "iteration" and "duration" are one for each name some iteration of
\* the result recorded, each name once and none left out, and the n-th of
\* them is headed by the number n, counting from 1, and its name.
OneColumnPerRecordedName ==
    (cmd = "detailed" /\ iterations_data /\ HandledResult >= 1 /\ ret # "raise") =>
        LET columns == SubSeq(iterations_headers, 3, Len(iterations_headers))
            names == RecordedNames(HandledIterations)
        IN  /\ Len(iterations_headers) >= 2
            /\ iterations_headers[1] = Column(0, <<"iteration">>)
            /\ iterations_headers[2] = Column(0, <<"duration">>)
            /\ Len(columns) = Cardinality(names)
            /\ {columns[n].name : n \in 1..Len(columns)} = names
            /\ \A n \in 1..Len(columns) : columns[n].i = n
            /\ \A n \in 1..Len(columns) :
                   /\ iterations_actions[n].name = columns[n].name
                   /\ iterations_actions[n].action = columns[n]

\* C13 witness: a result is done whose two iterations recorded one action
\* each, under different names, and the table has a column for both.
ColumnsOfTwoIterations ==
    /\ cmd = "detailed"
    /\ iterations_data
    /\ pc = "results"
    /\ ri = 1
    /\ Len(HandledIterations) = 2
    /\ PathsOf(HandledIterations[1].atomic_actions, <<>>) = {<<"nova.boot">>}
    /\ PathsOf(HandledIterations[2].atomic_actions, <<>>) = {<<"nova.delete">>}
    /\ Len(iterations_headers) = 4
    /\ iterations_headers[3] = Column(1, <<"nova.boot">>)
    /\ iterations_headers[4] = Column(2, <<"nova.delete">>)

EmptyIsNoError ==
    /\ (/\ cmd = "report" /\ pc = "done" /\ results = <<>>
        /\ out_format # <<>>
        /\ StartsWith(out_format, HTML) \/ out_format = JUNIT) =>
           /\ ret = "None"
           /\ artifact \in {"file", "stdout"}
           /\ rendered = (IF out_format = JUNIT THEN "junit" ELSE "plot")
           /\ rendered = "junit" => test_suite = <<>>
    /\ (cmd = "detailed" /\ task.found /\ task.status = FINISHED) =>
           /\ ret # "raise"
           /\ pc = "done" => ret = "None"
           /\ (HandledResult >= 1 /\ HandledIterations = <<>>) =>
                  /\ iterations = <<>>
                  /\ task_errors = <<>>
                  /\ pc \in {"results", "done"} =>
                         /\ Blocks("errors")[ri].count = 0
                         /\ Blocks("errors")[ri].lines = <<>>
                         /\ iterations_data =>
                                LET tables == Blocks("iterations")
                                IN  /\ tables[Len(tables)].count = 0
                                    /\ tables[Len(tables)].data.rows = <<>>

\* C15 witness: report() returned a junit suite without cases from tasks
\* that hold no result, and detailed() then returned from a FINISHED task
\* whose only result has no iteration.
EmptyReportThenEmptyDetailed ==
    /\ before.ran
    /\ before.results = <<>>
    /\ before.rendered = "junit"
    /\ before.test_suite = <<>>
    /\ before.artifact = "stdout"
    /\ cmd = "detailed" /\ pc = "done" /\ ret = "None"
    /\ task.status = FINISHED
    /\ iterations_data
    /\ Len(task.results) = 1
    /\ task.results[1].iterations = <<>>
    /\ Len(Blocks("errors")) = 1
    /\ Len(Blocks("iterations")) = 1

(***************************************************************************)
(* Properties of sla_check().                                              *)
(***************************************************************************)
\* The SLA entries of the results up to the r-th, as (result, entry) index
\* pairs.
EntriesUpTo(r) ==
    UNION {{<<q, k>> : k \in 1..Len(task.results[q].sla)} : q \in 1..r}

\* The rows made for the r-th result.
RowsOf(r) ==
    SubSeq(sla_data, Cardinality(EntriesUpTo(r - 1)) + 1, Cardinality(EntriesUpTo(r)))

\* C16: after every pass of sla_check() over a result, the count is the
\* number of entries with success false among the results handled, there is
\* one row per entry, the rows of a result follow those of the results
\* before it, carry its name and pos, are in the order of their criteria,
\* and are, entry for entry, those of the result with FAIL for success
\* false and PASS otherwise; what is returned is the count.
SlaCheckCountsFailed ==
    cmd = "sla_check" =>
        /\ failed_criteria =
               Cardinality({p \in EntriesUpTo(ri) :
                               ~task.results[p[1]].sla[p[2]].success})
        /\ Len(sla_data) = Cardinality(EntriesUpTo(ri))
        /\ \A r \in 1..ri :
               LET rows == RowsOf(r)
                   slas == task.results[r].sla
               IN  /\ \A k \in 1..Len(rows) :
                          /\ rows[k].benchmark = task.results[r].name
                          /\ rows[k].pos = task.results[r].pos
                          /\ rows[k].status \in {STATUS_PASS, STATUS_FAIL}
                   /\ \A k \in 1..(Len(rows) - 1) :
                          CriterionRank(rows[k].criterion)
                              <= CriterionRank(rows[k + 1].criterion)
                   /\ \A e \in CheckSlaEntries :
                          Cardinality({k \in 1..Len(rows) :
                                          /\ rows[k].criterion = e.criterion
                                          /\ rows[k].detail = e.detail
                                          /\ (rows[k].status = STATUS_FAIL) = ~e.success})
                              = Cardinality({k \in 1..Len(slas) : slas[k] = e})
        /\ pc = "done" =>
               /\ ret = "failed_criteria"
               /\ ri = Len(task.results)
               /\ printed[1].data = sla_data

\* C16 witness: sla_check() returned 2 for a task of two results: the first
\* stores a failed criterion before a passed one of a smaller name, the
\* second one failed criterion.
SlaCheckReturnsTwo ==
    /\ cmd = "sla_check" /\ pc = "done"
    /\ Len(task.results) = 2
    /\ Len(task.results[1].sla) = 2
    /\ ~task.results[1].sla[1].success
    /\ task.results[1].sla[2].success
    /\ CriterionRank(task.results[1].sla[2].criterion)
           < CriterionRank(task.results[1].sla[1].criterion)
    /\ Len(task.results[2].sla) = 1
    /\ failed_criteria = 2
    /\ sla_data[1].status = STATUS_PASS
    /\ sla_data[2].status = STATUS_FAIL
    /\ sla_data[3].status = STATUS_FAIL

(***************************************************************************)
(* Properties of the additive output tables of detailed().                 *)
(***************************************************************************)
\* The additive outputs of the iterations taken so far, after lines 376-389.
AdditivesTaken ==
    [i \in 1..ii |-> IterationOutput(HandledIterations[i]).additive]

\* C17: between the passes over the iterations of a result, there is one
\* table for each additive index that occurred and no other, the k-th table
\* has the title of an additive output that stood at index k, and holds the
\* data of the outputs at index k, iteration after iteration; the index is
\* never outside the list of tables.
AdditiveTablesMatchIndexes ==
    cmd = "detailed" =>
        /\ ret # "raise"
        /\ (HandledResult >= 1 /\ pc \in {"iterations", "results", "done"}) =>
               LET occurred == {k \in 1..Len(output) + 1 :
                                   \E i \in 1..ii : k <= Len(AdditivesTaken[i])}
               IN  /\ Len(output) = Cardinality(occurred)
                   /\ \A k \in 1..Len(output) :
                          LET with == SelectSeq([i \in 1..ii |-> i],
                                                LAMBDA i : k <= Len(AdditivesTaken[i]))
                          IN  /\ \E i \in 1..ii :
                                     /\ k <= Len(AdditivesTaken[i])
                                     /\ AdditivesTaken[i][k].title = output[k].title
                              /\ output[k].data =
                                     [n \in 1..Len(with) |->
                                         AdditivesTaken[with[n]][k].data]

(***************************************************************************)
(* Properties of the junit cases across results.                           *)
(***************************************************************************)
\* C18: the outcome and the message of a test case are fixed by the sla of
\* its own result: two cases of results with the same sla, whatever came
\* before each, have the same outcome and the same message.
JunitCaseDependsOnOwnSla ==
    cmd = "report" =>
        \A i, j \in 1..Len(test_suite) :
            results[i].sla = results[j].sla =>
                /\ test_suite[i].outcome = test_suite[j].outcome
                /\ test_suite[i].message = test_suite[j].message

(***************************************************************************)
(* Properties of the task status in detailed() and results().              *)
(***************************************************************************)
\* The local variables of the loop over the results are as they were before
\* the call and nothing of a result was printed.
ResultsUntouched ==
    /\ ri = 0
    /\ iterations = <<>> /\ output = <<>> /\ task_errors = <<>>
    /\ Blocks("scenario") = <<>>
    /\ Blocks("errors") = <<>>
    /\ Blocks("iterations") = <<>>
    /\ Blocks("output") = <<>>

\* C19: detailed() prints of a scenario result only when the task is
\* FINISHED or ABORTED; when it has ended, a missing task gave 1, a CRASHED
\* or VALIDATION_FAILED task gave 0 after the verification log alone, and a
\* task in any other status that is not FINISHED or ABORTED gave 0 after the
\* notice alone, the results untouched in all three.
DetailedStatusGates ==
    cmd = "detailed" =>
        /\ ~ResultsUntouched => (task.found /\ task.status \in {FINISHED, ABORTED})
        /\ pc # "done" => (task.found /\ task.status \in {FINISHED, ABORTED})
        /\ (pc = "done" /\ ~task.found) =>
               /\ ret = "1"
               /\ Len(printed) = 1 /\ printed[1].kind = "not found"
        /\ (pc = "done" /\ task.found
                /\ task.status \in {CRASHED, VALIDATION_FAILED}) =>
               /\ ret = "0"
               /\ Len(printed) = 1 /\ printed[1].kind = "verification"
        /\ (pc = "done" /\ task.found
                /\ task.status \notin {CRASHED, VALIDATION_FAILED, FINISHED, ABORTED}) =>
               /\ ret = "0"
               /\ Len(printed) = 1 /\ printed[1].kind = "not finished"
        /\ (pc = "done" /\ task.found /\ task.status \in {FINISHED, ABORTED}) =>
               /\ ret = "None"
               /\ Len(Blocks("scenario")) = Len(task.results)

\* C19 witness: detailed() returned 0 for a CRASHED task that holds two
\* results, after printing the verification log and nothing else.
CrashedTaskShowsNoResults ==
    /\ cmd = "detailed" /\ pc = "done" /\ ret = "0"
    /\ task.status = CRASHED
    /\ Len(task.results) = 2
    /\ Len(task.results[1].iterations) >= 1
    /\ printed[1].kind = "verification"
    /\ ResultsUntouched

\* C20: results() prints the JSON exactly when the task is FINISHED or
\* ABORTED and returns 1 without it otherwise; the array holds one object
\* per result of the task, in task order, each with the seven keys: the key
\* of the result, its raw iterations in their order, its sla, its hooks or
\* [] when it has none, its durations and its creation time.
ResultsPrintsEveryResult ==
    (cmd = "results" /\ pc = "done") =>
        IF task.status \in {FINISHED, ABORTED}
        THEN /\ ret = "None"
             /\ Len(printed) = 1
             /\ printed[1].kind = "json"
             /\ Len(printed[1].data) = Len(task.results)
             /\ \A i \in 1..Len(task.results) :
                    LET x == task.results[i]
                        o == printed[1].data[i]
                    IN  /\ DOMAIN o = {"key", "result", "sla", "hooks",
                                       "load_duration", "full_duration", "created_at"}
                        /\ o.key = [name |-> x.name, pos |-> x.pos]
                        /\ o.sla = x.sla
                        /\ o.hooks = (IF x.hooks.present THEN x.hooks.items ELSE <<>>)
                        /\ o.load_duration = x.load_duration
                        /\ o.full_duration = x.full_duration
                        /\ o.created_at = x.created_at
                        /\ Len(o.result) = Len(x.raw)
                        /\ \A k \in 1..Len(x.raw) :
                               /\ o.result[k].duration = x.raw[k].duration
                               /\ o.result[k].error = x.raw[k].error
                               /\ o.result[k].output = x.raw[k].output
                               /\ Len(o.result[k].atomic_actions)
                                      = Len(x.raw[k].atomic_actions)
        ELSE /\ ret = "1"
             /\ Blocks("json") = <<>>

\* C20 witness: results() printed two objects for an ABORTED task of two
\* results of different names, the first with two iterations of different
\* durations, the second with hooks.
ResultsOfTwo ==
    /\ cmd = "results" /\ pc = "done" /\ ret = "None"
    /\ task.status = ABORTED
    /\ Len(task.results) = 2
    /\ task.results[1].name # task.results[2].name
    /\ Len(task.results[1].raw) = 2
    /\ task.results[1].raw[1].duration # task.results[1].raw[2].duration
    /\ ~task.results[1].hooks.present
    /\ task.results[2].hooks.present
    /\ printed[1].data[1].hooks = <<>>
    /\ printed[1].data[2].hooks = <<"hook">>

(***************************************************************************)
(* Properties of the tasks list of report() and trends().                  *)
(***************************************************************************)
\* The identifier is neither an existing path nor UUID-like.
IsNeither(id) == ~PathExists(id) /\ ~IsUuidLike(id)

\* The loop has reached an identifier that is neither.
ReachedNeither == ti /\ IsNeither(task_file_or_uuid)

\* The tasks list holds an identifier that is neither: the one the loop has
\* reached, or one it never reached.
ListedNeither ==
    \/ ReachedNeither
    \/ \E k \in 1..Len(unread) : IsNeither(unread[k])

\* Nothing was rendered, written or printed.
NoArtifact == rendered = "none" /\ artifact = "none"

\* trends() that was given no task has returned 1 without rendering.
TrendsOfNothing ==
    (cmd = "trends" /\ pc = "done" /\ ~ti) => (ret = "1" /\ NoArtifact)

\* A step of the loop that takes an identifier that is an existing path
\* loads it as a results file: what the file holds is validated, and is
\* what joins the results, or the loader raises.
PathIsLoadedAsFile ==
    (/\ cmd \in {"report", "trends"}
     /\ pc = "load" /\ pc' \in {"load", "done"}
     /\ PathExists(task_file_or_uuid'))
    => IF \A k \in 1..Len(file_entries') : SchemaValid(file_entries'[k])
       THEN /\ ret' = "pending"
            /\ supplied' = supplied \o
                   [k \in 1..Len(file_entries') |-> file_entries'[k].result]
       ELSE /\ ret' = "raise"
            /\ exc' = [type |-> "FailedToLoadResults",
                       source |-> task_file_or_uuid']
            /\ supplied' = supplied

\* C21 as stated: whenever the tasks list of report() or trends() holds an
\* identifier that is neither an existing path nor UUID-like, the command
\* returns 1 and there is no artifact; trends() given no task returns 1
\* without rendering; an existing path is loaded as a results file, also
\* when it is UUID-like.
NeitherListedReturnsOne ==
    [][/\ (cmd' \in {"report", "trends"} /\ pc' = "done" /\ ListedNeither')
           => (ret' = "1" /\ NoArtifact')
       /\ TrendsOfNothing'
       /\ PathIsLoadedAsFile]_vars

\* C21, amended: when the loop of report() or trends() reaches an identifier
\* that is neither an existing path nor UUID-like, the command returns 1 and
\* there is no artifact, whatever was loaded before; trends() given no task
\* returns 1 without rendering; an existing path is loaded as a results
\* file, also when it is UUID-like.
NeitherReachedReturnsOne ==
    [][/\ (cmd' \in {"report", "trends"} /\ pc' = "done" /\ ReachedNeither')
           => (ret' = "1" /\ NoArtifact')
       /\ TrendsOfNothing'
       /\ PathIsLoadedAsFile]_vars

\* C21 witness: report() has loaded the two entries of a results file, the
\* last one from the path that is UUID-like, then reached an identifier that
\* is neither, and returned 1 with another identifier still unread.
NeitherAfterLoadedFile ==
    /\ cmd = "report" /\ pc = "done" /\ ret = "1"
    /\ task_file_or_uuid = "nowhere"
    /\ Len(file_entries) = 2
    /\ Len(supplied) = 2
    /\ Len(results) = 2
    /\ unread = <<"uuid-2">>
    /\ NoArtifact

====
